---------------------------- MODULE Spec2Model ----------------------------
(***************************************************************************)
(* A model of the pycrypto library (package znakes): prime-field           *)
(* arithmetic, the twisted Edwards group law, point compression,           *)
(* hash-to-curve, EdDSA and the windowed Pedersen hasher.                  *)
(*                                                                         *)
(* Scale.  TLC computes with 32-bit integers, so the two curves are        *)
(* instantiated over small primes that keep the structure of the real      *)
(* parameter sets: A a square and D a non-square of the field (complete    *)
(* addition law), curve order E = C * L with cofactor C = 8 and L prime.   *)
(*   BabyJubJub: A - D = 4, E > Q, L computed as FQ(E) / C, the generator  *)
(*               has order L         (real: Q has 254 bits)                *)
(*   JubJub:     A = -1,    E < Q, L given literally, the generator has    *)
(*               order E             (real: Q has 255 bits)                *)
(* Encodings and digests are ENC_BYTES bytes wide instead of 32; SHA-256   *)
(* is a keyed mixing function over byte strings (hashSeed ranges over a    *)
(* family of such functions).                                              *)
(***************************************************************************)
EXTENDS Integers, Sequences, FiniteSets, TLC

VARIABLES
    sqrtRoot,   \* which of the two roots square_root_mod_prime returns
    hashSeed,   \* selects the digest function standing for SHA-256
    cv,         \* curve run: a point, its encoding, the decoded point
    ed,         \* EdDSA run: key, message, signature, verdict
    hasher,     \* the PedersenHasher object
    ret,        \* the last Pedersen call and what it returned
    log,        \* an earlier successful hash_bytes call, remembered
    shared,     \* the PedersenHasher shared by two threads
    th          \* per thread: position in __hash_windows and its locals

vars == <<sqrtRoot, hashSeed, cv, ed, hasher, ret, log, shared, th>>

---------------------------------------------------------------------------
(* Bounds of the model *)

\* bytes of an encoded scalar / point / digest (32 in the source)
ENC_BYTES == 2

\* largest hashSeed: the digest functions the checks range over
MaxSeed == 1

ENC_BITS == 8 * ENC_BYTES
SIGN_BIT == ENC_BITS - 1

RECURSIVE Pow2(_)
Pow2(n) == IF n = 0 THEN 1 ELSE 2 * Pow2(n - 1)

\* TRUE; as a guard it has the value v computed before the operator goes on,
\* which keeps the evaluation of a loop's accumulator shallow
Evaluated(v) == v = v

---------------------------------------------------------------------------
(* fields.py: FQ *)

\* FQ.__init__: self.n = val % self.FIELD
FQ(p, val) == val % p

RECURSIVE inv_loop_ceiling(_, _, _, _)
\* the loop of inv with the quotient rounded up
inv_loop_ceiling(lm, hm, low, high) ==
    IF low > 1
    THEN LET r   == (high + low - 1) \div low
             nm  == hm - lm * r
             new == high - low * r
         IN  inv_loop_ceiling(nm, lm, new, low)
    ELSE lm

RECURSIVE inv_loop(_, _, _, _)
inv_loop(lm, hm, low, high) ==
    IF low > 1
    THEN LET r   == high \div low
             nm  == hm - lm * r
             new == high - low * r
         IN  inv_loop(nm, lm, new, low)
    ELSE lm

\* FQ.inv: extended Euclid; inv(0) = 0
inv(p, n) ==
    IF n = 0 THEN FQ(p, 0)
    ELSE FQ(p, inv_loop(1, 0, n % p, p))

fadd(p, a, b) == FQ(p, a + b)
fmul(p, a, b) == FQ(p, a * b)
fsub(p, a, b) == FQ(p, a - b)
fdiv(p, a, b) == fmul(p, a, inv(p, b))
fneg(p, a)    == FQ(p, 0 - a)

---------------------------------------------------------------------------
(* numbertheory.square_root_mod_prime: the module is not part of the       *)
(* sources; it returns one r with r*r = a (mod p) or raises                *)
(* SquareRootError.  Which root is returned is left open: sqrtRoot.        *)

SquareRoots(a, p) == {r \in 0..(p - 1) : (r * r) % p = a % p}

HasSquareRoot(a, p) == SquareRoots(a, p) # {}

square_root_mod_prime(a, p) ==
    LET rs == SquareRoots(a, p)
        lo == CHOOSE r \in rs : \A s \in rs : r <= s
        hi == CHOOSE r \in rs : \A s \in rs : r >= s
    IN  IF sqrtRoot = "low" THEN lo ELSE hi

---------------------------------------------------------------------------
(* curves.py: the two parameter sets *)

BN128Field == 43
BLS12_381Field == 61

BabyJubJub ==
    [ name |-> "BabyJubJub",
      Q |-> BN128Field,
      E |-> 56,
      C |-> FQ(BN128Field, 8),
      L |-> fdiv(BN128Field, FQ(BN128Field, 56), FQ(BN128Field, 8)),
      A |-> FQ(BN128Field, 38),
      D |-> FQ(BN128Field, 34),
      G |-> [x |-> FQ(BN128Field, 6), y |-> FQ(BN128Field, 34)] ]

JubJub ==
    [ name |-> "JubJub",
      Q |-> BLS12_381Field,
      E |-> 56,
      C |-> FQ(BLS12_381Field, 8),
      L |-> FQ(BLS12_381Field, 7),
      A |-> FQ(BLS12_381Field, 0 - 1),
      D |-> FQ(BLS12_381Field, 2),
      G |-> [x |-> FQ(BLS12_381Field, 3), y |-> FQ(BLS12_381Field, 8)] ]

Curves == {BabyJubJub, JubJub}

generator(c) == c.G

infinity(c) == [x |-> FQ(c.Q, 0), y |-> FQ(c.Q, 1)]

Point(x, y) == [x |-> x, y |-> y]

\* valid() testing a*y^2 + x^2 = 1 + d*x^2*y^2: the coordinates exchanged
valid_xy_exchanged(c, P) ==
    LET xsq == fmul(c.Q, P.x, P.x)
        ysq == fmul(c.Q, P.y, P.y)
    IN  fadd(c.Q, fmul(c.Q, c.A, ysq), xsq)
          = fadd(c.Q, FQ(c.Q, 1), fmul(c.Q, fmul(c.Q, c.D, xsq), ysq))

\* EdwardsCurve.valid: A x^2 + y^2 = 1 + D x^2 y^2
valid(c, P) ==
    LET xsq == fmul(c.Q, P.x, P.x)
        ysq == fmul(c.Q, P.y, P.y)
    IN  fadd(c.Q, fmul(c.Q, c.A, xsq), ysq)
          = fadd(c.Q, FQ(c.Q, 1), fmul(c.Q, fmul(c.Q, c.D, xsq), ysq))

\* EdwardsCurve.add with the sign of the a*u1*u2 term flipped
add_sign_slip(c, P1, P2) ==
    IF P1.x = 0 /\ P1.y = 0 THEN P2
    ELSE
    LET q  == c.Q
        u1 == P1.x
        v1 == P1.y
        u2 == P2.x
        v2 == P2.y
        duv == fmul(q, fmul(q, fmul(q, fmul(q, c.D, u1), u2), v1), v2)
        u3 == fdiv(q, fadd(q, fmul(q, u1, v2), fmul(q, v1, u2)),
                      fadd(q, FQ(q, 1), duv))
        v3 == fdiv(q, fadd(q, fmul(q, v1, v2), fmul(q, fmul(q, c.A, u1), u2)),
                      fsub(q, FQ(q, 1), duv))
    IN  Point(u3, v3)

\* EdwardsCurve.add, with its (0,0) shortcut
add(c, P1, P2) ==
    IF P1.x = 0 /\ P1.y = 0 THEN P2
    ELSE
    LET q  == c.Q
        u1 == P1.x
        v1 == P1.y
        u2 == P2.x
        v2 == P2.y
        duv == fmul(q, fmul(q, fmul(q, fmul(q, c.D, u1), u2), v1), v2)
        u3 == fdiv(q, fadd(q, fmul(q, u1, v2), fmul(q, v1, u2)),
                      fadd(q, FQ(q, 1), duv))
        v3 == fdiv(q, fsub(q, fmul(q, v1, v2), fmul(q, fmul(q, c.A, u1), u2)),
                      fsub(q, FQ(q, 1), duv))
    IN  Point(u3, v3)

double(c, P) == add(c, P, P)

neg(c, P) == Point(fneg(c.Q, P.x), P.y)

RECURSIVE mult_loop_add_always(_, _, _, _)
\* the loop of mult adding p at every bit, set or not
mult_loop_add_always(c, p, a, scalar) ==
    IF scalar # 0 /\ Evaluated(p) /\ Evaluated(a)
    THEN mult_loop_add_always(c, double(c, p), add(c, a, p), scalar \div 2)
    ELSE a

RECURSIVE mult_loop(_, _, _, _)
mult_loop(c, p, a, scalar) ==
    IF scalar # 0 /\ Evaluated(p) /\ Evaluated(a)
    THEN mult_loop(c, double(c, p),
                   IF scalar % 2 # 0 THEN add(c, a, p) ELSE a,
                   scalar \div 2)
    ELSE a

\* mult doubling the point before the first bit is looked at
mult_doubled_first(c, P, scalar) ==
    mult_loop(c, double(c, P), infinity(c), scalar)

\* mult with the accumulator starting at the point, not at infinity()
mult_from_point(c, P, scalar) == mult_loop(c, P, P, scalar)

\* EdwardsCurve.mult: double-and-add from the least significant bit
mult(c, P, scalar) == mult_loop(c, P, infinity(c), scalar)

\* is_negative(v): v.n < (-v).n
is_negative(p, v) == v < fneg(p, v)

NoPoint == [x |-> 0 - 1, y |-> 0 - 1]

Ok(v) == [err |-> "none", val |-> v]

Raise(e) == [err |-> e, val |-> NoPoint]

\* the absent optional argument (None)
None == 0 - 1

\* from_x returning the smaller of y and -y
from_x_smaller_root(c, x) ==
    LET q      == c.Q
        xsq    == fmul(q, x, x)
        ax2    == fmul(q, c.A, xsq)
        dxsqm1 == inv(q, fsub(q, fmul(q, c.D, xsq), FQ(q, 1)))
        ysq    == fmul(q, dxsqm1, fsub(q, ax2, FQ(q, 1)))
    IN  IF ~HasSquareRoot(ysq, q) THEN Raise("SquareRootError")
        ELSE LET y == FQ(q, square_root_mod_prime(ysq, q))
             IN  IF fneg(q, y) < y THEN Ok(Point(x, fneg(q, y)))
                 ELSE Ok(Point(x, y))

\* EdwardsCurve.from_x: y^2 = (A x^2 - 1) / (D x^2 - 1), the root as the
\* square root function returns it
from_x(c, x) ==
    LET q      == c.Q
        xsq    == fmul(q, x, x)
        ax2    == fmul(q, c.A, xsq)
        dxsqm1 == inv(q, fsub(q, fmul(q, c.D, xsq), FQ(q, 1)))
        ysq    == fmul(q, dxsqm1, fsub(q, ax2, FQ(q, 1)))
    IN  IF ~HasSquareRoot(ysq, q) THEN Raise("SquareRootError")
        ELSE Ok(Point(x, FQ(q, square_root_mod_prime(ysq, q))))

\* from_y solving for x*x with the curve's a and d exchanged
from_y_a_d_exchanged(c, y, sign) ==
    LET q   == c.Q
        ysq == fmul(q, y, y)
        lhs == fsub(q, ysq, FQ(q, 1))
        rhs == fsub(q, fmul(q, c.A, ysq), c.D)
        xsq == fdiv(q, lhs, rhs)
    IN  IF ~HasSquareRoot(xsq, q) THEN Raise("SquareRootError")
        ELSE LET x == FQ(q, square_root_mod_prime(xsq, q))
             IN  IF sign # None
                 THEN IF (x % 2) # sign
                      THEN Ok(Point(fneg(q, x), y))
                      ELSE Ok(Point(x, y))
                 ELSE IF is_negative(q, x)
                      THEN Ok(Point(fneg(q, x), y))
                      ELSE Ok(Point(x, y))

\* EdwardsCurve.from_y: x^2 = (y^2 - 1) / (D y^2 - A); sign is 0, 1 or None
from_y(c, y, sign) ==
    LET q   == c.Q
        ysq == fmul(q, y, y)
        lhs == fsub(q, ysq, FQ(q, 1))
        rhs == fsub(q, fmul(q, c.D, ysq), c.A)
        xsq == fdiv(q, lhs, rhs)
    IN  IF ~HasSquareRoot(xsq, q) THEN Raise("SquareRootError")
        ELSE LET x == FQ(q, square_root_mod_prime(xsq, q))
             IN  IF sign # None
                 THEN IF (x % 2) # sign
                      THEN Ok(Point(fneg(q, x), y))
                      ELSE Ok(Point(x, y))
                 ELSE IF is_negative(q, x)
                      THEN Ok(Point(fneg(q, x), y))
                      ELSE Ok(Point(x, y))

---------------------------------------------------------------------------
(* byte strings: sequences over 0..255 *)

RECURSIVE int_to_bytes_big(_, _)
int_to_bytes_big(v, n) ==
    IF n = 0 THEN << >>
    ELSE Append(int_to_bytes_big(v \div 256, n - 1), v % 256)

\* int.to_bytes(v, n, "big"): OverflowError when v does not fit
int_to_bytes(v, n) ==
    IF v < 0 \/ v >= Pow2(8 * n) THEN Raise("OverflowError")
    ELSE Ok(int_to_bytes_big(v, n))

RECURSIVE int_from_bytes(_)
\* int.from_bytes(b, "big")
int_from_bytes(b) ==
    IF Len(b) = 0 THEN 0
    ELSE 256 * int_from_bytes(SubSeq(b, 1, Len(b) - 1)) + b[Len(b)]

\* y | (bit << k) for bit in {0, 1}
BitOr(y, bit, k) ==
    IF bit = 1 /\ (y \div Pow2(k)) % 2 = 0 THEN y + Pow2(k) ELSE y

\* a variant of compress that leaves the sign bit clear
compress_without_sign(c, P) ==
    int_to_bytes(P.y, ENC_BYTES)

\* EdwardsCurve.compress: y with bit 255 set to the parity of x
compress(c, P) ==
    int_to_bytes(BitOr(P.y, P.x % 2, SIGN_BIT), ENC_BYTES)

\* EdwardsCurve.decompress
decompress(c, point) ==
    IF Len(point) # ENC_BYTES THEN Raise("ValueError")
    ELSE LET y0   == int_from_bytes(point)
             sign == y0 \div Pow2(SIGN_BIT)
             y    == y0 % Pow2(SIGN_BIT)
         IN  from_y(c, FQ(c.Q, y), sign)

---------------------------------------------------------------------------
(* hashlib.sha256: a digest of ENC_BYTES bytes, a function of the whole    *)
(* byte string; hashSeed selects the function                              *)

RECURSIVE sha256_mix(_, _)
sha256_mix(h, data) ==
    IF Len(data) = 0 \/ ~Evaluated(h) THEN h
    ELSE sha256_mix((h * 31 + Head(data) + 1) % Pow2(ENC_BITS), Tail(data))

sha256(data) ==
    int_to_bytes_big(sha256_mix(7 + 1000 * hashSeed + Len(data), data), ENC_BYTES)

---------------------------------------------------------------------------
(* utils.py: to_bytes, by argument type *)

\* an int: M.to_bytes(32, "big")
to_bytes_int(n) == int_to_bytes(n, ENC_BYTES).val

\* a field element: its residue
to_bytes_FQ(n) == to_bytes_int(n)

\* a curve point: its x coordinate only
to_bytes_point(P) == to_bytes_FQ(P.x)

---------------------------------------------------------------------------
(* eddsa.py *)

RECURSIVE Concat(_)
Concat(parts) ==
    IF Len(parts) = 0 THEN << >> ELSE Head(parts) \o Concat(Tail(parts))

\* hash_to_scalar reducing the digest modulo the subgroup order L
hash_to_scalar_mod_L(c, parts) ==
    int_from_bytes(sha256(Concat(parts))) % c.L

\* PublicKey.hash_to_scalar: the digest as an integer, mod JUBJUB_E
hash_to_scalar(c, parts) ==
    int_from_bytes(sha256(Concat(parts))) % c.E

\* PrivateKey.__init__: self.fe = field(sk)
PrivateKey(c, sk) == FQ(c.Q, sk)

RECURSIVE BitLength(_)
BitLength(n) == IF n = 0 THEN 0 ELSE 1 + BitLength(n \div 2)

\* ceil(log2(n)) for n >= 1
CeilLog2(n) == BitLength(n - 1)

\* PrivateKey.from_rand: nbytes = ceil(ceil(log2(L)) / 8)
from_rand_nbytes(c) == (CeilLog2(c.L) + 7) \div 8

\* PublicKey.from_private: A = B.mult(sk.fe); a given B fails the assertion
\* type(B) == type(curve)
from_private(c, fe, B) ==
    IF B # NoPoint THEN Raise("AssertionError")
    ELSE Ok(mult(c, generator(c), fe))

\* a variant of sign that reduces S modulo the subgroup order L
sign_mod_L(c, fe, M, B) ==
    LET Bp   == IF B # NoPoint THEN B ELSE generator(c)
        A    == from_private(c, fe, NoPoint).val
        r    == hash_to_scalar(c, <<to_bytes_FQ(fe), M>>)
        R    == mult(c, Bp, r)
        hRAM == hash_to_scalar(c, <<to_bytes_point(R), to_bytes_point(A), M>>)
        S    == (r + fe * hRAM) % c.L
    IN  [R |-> R, S |-> S]

\* PrivateKey.sign
sign(c, fe, M, B) ==
    LET Bp   == IF B # NoPoint THEN B ELSE generator(c)
        A    == from_private(c, fe, NoPoint).val
        r    == hash_to_scalar(c, <<to_bytes_FQ(fe), M>>)
        R    == mult(c, Bp, r)
        hRAM == hash_to_scalar(c, <<to_bytes_point(R), to_bytes_point(A), M>>)
        S    == (r + fe * hRAM) % c.E
    IN  [R |-> R, S |-> S]

\* PublicKey.verify
verify(c, A, sig, M, B) ==
    LET Bp   == IF B # NoPoint THEN B ELSE generator(c)
        lhs  == mult(c, Bp, sig.S)
        hRAM == hash_to_scalar(c, <<to_bytes_point(sig.R), to_bytes_point(A), M>>)
        rhs  == add(c, sig.R, mult(c, A, hRAM))
    IN  lhs = rhs

---------------------------------------------------------------------------
(* Values of the state parts a specification does not use *)

CvIdle == [pc |-> "idle"]

EdIdle == [pc |-> "idle"]

EnvInit ==
    /\ sqrtRoot \in {"low", "high"}
    /\ hashSeed \in 0..MaxSeed

---------------------------------------------------------------------------
(* Curve runs: a point of the curve is compressed, the buffer decompressed *)

CurvePoints(c) ==
    {P \in [x : 0..(c.Q - 1), y : 0..(c.Q - 1)] : valid(c, P)}

CurveInit ==
    /\ EnvInit
    /\ \E c \in Curves : \E P \in CurvePoints(c) :
          cv = [pc |-> "point", c |-> c, P |-> P,
                enc |-> Raise("unset"), dec |-> Raise("unset")]
    /\ ed = EdIdle
    /\ hasher = [name |-> << >>]
    /\ ret = [pc |-> "idle"]
    /\ log = {}
    /\ shared = [pc |-> "idle"]
    /\ th = << >>

Compress ==
    /\ cv.pc = "point"
    /\ cv' = [cv EXCEPT !.pc = "compressed", !.enc = compress(cv.c, cv.P)]
    /\ UNCHANGED <<sqrtRoot, hashSeed, ed, hasher, ret, log, shared, th>>

Decompress ==
    /\ cv.pc = "compressed"
    /\ cv.enc.err = "none"
    /\ cv' = [cv EXCEPT !.pc = "decompressed",
                        !.dec = decompress(cv.c, cv.enc.val)]
    /\ UNCHANGED <<sqrtRoot, hashSeed, ed, hasher, ret, log, shared, th>>

CurveNext == Compress \/ Decompress

SpecCurve == CurveInit /\ [][CurveNext]_vars

\* C2: for every point P on the curve, compress(P) is exactly ENC_BYTES
\* (32) bytes and decompress(compress(P)) is P, both coordinates equal.
C2_CompressRoundTrip ==
    /\ cv.pc \in {"compressed", "decompressed"} =>
          /\ cv.enc.err = "none"
          /\ Len(cv.enc.val) = ENC_BYTES
    /\ cv.pc = "decompressed" =>
          /\ cv.dec.err = "none"
          /\ cv.dec.val.x = cv.P.x
          /\ cv.dec.val.y = cv.P.y

\* a point with odd x (sign bit set in the buffer) came back from the
\* round trip where the square root returned was the other one
C2_Witness ==
    /\ cv.pc = "decompressed"
    /\ cv.P.x % 2 = 1
    /\ cv.enc.val[1] >= 128
    /\ cv.dec.err = "none"
    /\ cv.dec.val = cv.P
    /\ square_root_mod_prime(fmul(cv.c.Q, cv.P.x, cv.P.x), cv.c.Q) # cv.P.x

---------------------------------------------------------------------------
(* EdDSA runs: a key (explicit or random), a message, sign, then verify    *)
(* with the public key derived from the private key                        *)

\* largest explicit private key tried (above both field moduli)
MaxKey == 64

Msgs == { <<0, 0>>, <<1>>, <<255, 16, 3>> }

EdDSAInit ==
    /\ EnvInit
    /\ \E c \in Curves : \E M \in Msgs :
          ed = [pc |-> "start", c |-> c, M |-> M, sk |-> 0, fe |-> 0,
                rand |-> FALSE, sig |-> [R |-> NoPoint, S |-> 0],
                verdict |-> FALSE]
    /\ cv = CvIdle
    /\ hasher = [name |-> << >>]
    /\ ret = [pc |-> "idle"]
    /\ log = {}
    /\ shared = [pc |-> "idle"]
    /\ th = << >>

\* PrivateKey(sk, curve)
NewPrivateKey ==
    /\ ed.pc = "start"
    /\ \E sk \in 0..MaxKey :
          ed' = [ed EXCEPT !.pc = "keyed", !.sk = sk,
                           !.fe = PrivateKey(ed.c, sk)]
    /\ UNCHANGED <<sqrtRoot, hashSeed, cv, hasher, ret, log, shared, th>>

\* PrivateKey.from_rand(curve): urandom(nbytes) read little-endian
FromRand ==
    /\ ed.pc = "start"
    /\ \E rand_n \in 0..(Pow2(8 * from_rand_nbytes(ed.c)) - 1) :
          /\ rand_n <= MaxKey \/ rand_n = Pow2(8 * from_rand_nbytes(ed.c)) - 1
          /\ ed' = [ed EXCEPT !.pc = "keyed", !.sk = rand_n, !.rand = TRUE,
                              !.fe = PrivateKey(ed.c, rand_n)]
    /\ UNCHANGED <<sqrtRoot, hashSeed, cv, hasher, ret, log, shared, th>>

\* sig = sk.sign(msg)
Sign ==
    /\ ed.pc = "keyed"
    /\ ed' = [ed EXCEPT !.pc = "signed",
                        !.sig = sign(ed.c, ed.fe, ed.M, NoPoint)]
    /\ UNCHANGED <<sqrtRoot, hashSeed, cv, hasher, ret, log, shared, th>>

\* PublicKey.from_private(sk).verify(sig, msg)
Verify ==
    /\ ed.pc = "signed"
    /\ ed' = [ed EXCEPT !.pc = "verified",
                        !.verdict = verify(ed.c,
                                           from_private(ed.c, ed.fe, NoPoint).val,
                                           ed.sig, ed.M, NoPoint)]
    /\ UNCHANGED <<sqrtRoot, hashSeed, cv, hasher, ret, log, shared, th>>

EdDSANext == NewPrivateKey \/ FromRand \/ Sign \/ Verify

SpecEdDSA == EdDSAInit /\ [][EdDSANext]_vars

\* C1: on each curve, for every private key (explicit or from_rand) and
\* every message M, PublicKey.from_private(sk).verify(sk.sign(M), M) is True.
C1_SignVerify == ed.pc = "verified" => ed.verdict = TRUE

\* a random key above the field modulus signed on JubJub, whose generator
\* has the full order E, with S above L, and the signature verified
C1_Witness ==
    /\ ed.pc = "verified"
    /\ ed.verdict = TRUE
    /\ ed.rand
    /\ ed.c = JubJub
    /\ ed.sk >= ed.c.Q
    /\ ed.fe # 0
    /\ ed.sig.S >= ed.c.L

---------------------------------------------------------------------------
(* curves.py: EdwardsCurve.from_hash *)

RECURSIVE from_hash_loop(_, _)
\* one round of the loop, p being what from_y(y) gave
from_hash_try(c, y, p) ==
    IF p.err = "SquareRootError"
    THEN from_hash_loop(c, fadd(c.Q, y, FQ(c.Q, 1)))
    ELSE p.val

\* while True: try from_y(y); except SquareRootError: y += 1
from_hash_loop(c, y) == from_hash_try(c, y, from_y(c, y, None))

\* the safety check on p = 8 * (the point found): p * L must be the identity
from_hash_check(c, p) ==
    IF mult(c, p, c.L) # infinity(c)
    THEN Raise("RuntimeError")
    ELSE Ok(p)

from_hash(c, entropy) ==
    from_hash_check(c,
        mult(c, from_hash_loop(c, FQ(c.Q, int_from_bytes(sha256(entropy)))),
             c.C))

---------------------------------------------------------------------------
(* gadgets/pedersenHasher.py *)

WINDOW_SIZE_BITS == 2

\* a fresh base point every 62 segments
SEGMENTS_PER_BASEPOINT == 62

MAX_NAME_LEN == 28

MAX_SEQUENCE == 65535

\* "%-28s": left-justified, padded with spaces
ljust(name, n) ==
    IF Len(name) >= n THEN name
    ELSE name \o [k \in 1..(n - Len(name)) |-> 32]

HexDigit(d) == IF d < 10 THEN 48 + d ELSE 55 + d

\* "%04X" for 0 <= i <= 0xFFFF
hex4(i) ==
    << HexDigit((i \div 4096) % 16), HexDigit((i \div 256) % 16),
       HexDigit((i \div 16) % 16), HexDigit(i % 16) >>

\* data = b"%-28s%04X" % (name, i)
basepoint_data(name, i) == ljust(name, MAX_NAME_LEN) \o hex4(i)

\* pedersen_hash_basepoint: ValueError("Sequence number invalid") is
\* InvalidIndex, ValueError("Name too long") is InvalidName
pedersen_hash_basepoint(name, i) ==
    IF i < 0 \/ i > MAX_SEQUENCE THEN Raise("InvalidIndex")
    ELSE IF Len(name) > MAX_NAME_LEN THEN Raise("InvalidName")
    ELSE from_hash(BabyJubJub, basepoint_data(name, i))

\* three doublings where the code makes four
double4_thrice(P) ==
    double(BabyJubJub, double(BabyJubJub, double(BabyJubJub, P)))

double4(P) ==
    double(BabyJubJub, double(BabyJubJub, double(BabyJubJub, double(BabyJubJub, P))))

RECURSIVE gen_generators_doubling(_, _, _, _)
\* the rounds with j % 62 # 0 that follow a base point: four doublings of
\* the current point each
gen_generators_doubling(segments, j, current, generators) ==
    IF j >= segments \/ j % SEGMENTS_PER_BASEPOINT = 0
         \/ ~Evaluated(current) \/ ~Evaluated(generators)
    THEN generators
    ELSE gen_generators_doubling(segments, j + 1, double4(current),
                                 Append(generators, double4(current)))

RECURSIVE gen_generators_loop(_, _, _, _)
\* the round of a segment with j % 62 = 0 and the rounds up to the next
\* one: bp is the fresh base point, or what raising it gave
gen_generators_step(name, segments, j, generators, bp) ==
    IF bp.err # "none" THEN bp
    ELSE gen_generators_loop(name, segments, j + SEGMENTS_PER_BASEPOINT,
             gen_generators_doubling(segments, j + 1, bp.val,
                                     Append(generators, bp.val)))

\* for j in range(0, self.segments), from one base point to the next
gen_generators_loop(name, segments, j, generators) ==
    IF j >= segments \/ ~Evaluated(generators)
    THEN Ok(generators)
    ELSE gen_generators_step(name, segments, j, generators,
             pedersen_hash_basepoint(name, j \div SEGMENTS_PER_BASEPOINT))

\* PedersenHasher.__gen_generators: reads self.name and self.segments
gen_generators(name, segments) ==
    gen_generators_loop(name, segments, 0, << >>)

\* PedersenHasher.__init__(name, segments=False): segments 0 is "not given".
\* has_generators tells whether the attribute self.generators exists; first
\* is the window count of the first call that succeeded (history, not a field).
NewHasher(name, segments) ==
    [ name |-> name,
      segments |-> IF segments # 0 THEN segments ELSE None,
      is_sized |-> segments # 0,
      has_generators |-> FALSE,
      generators |-> << >>,
      explicit |-> segments # 0,
      first |-> None ]

RECURSIVE BinDigits(_)
\* bitstring.BitArray(bin(i)).bin: the binary digits of i, most significant
\* first, "0" for 0
BinDigits(i) ==
    IF i < 2 THEN <<i>> ELSE Append(BinDigits(i \div 2), i % 2)

\* s[::-1]
Reversed(s) == [k \in 1..Len(s) |-> s[Len(s) + 1 - k]]

\* "{:0<3}".format(w): left-aligned, filled with 0 up to 3 characters
\* (the digits are 0 and 1 here, '0' and '1' in the source)
LeftAligned3(w) ==
    IF Len(w) >= 3 THEN w ELSE w \o [k \in 1..(3 - Len(w)) |-> 0]

RECURSIVE windows_to_dsl_array_msb_first(_)
\* a variant that does not reverse the digits of a window
windows_to_dsl_array_msb_first(ws) ==
    IF Len(ws) = 0 THEN << >>
    ELSE LeftAligned3(BinDigits(Head(ws)))
           \o windows_to_dsl_array_msb_first(Tail(ws))

RECURSIVE windows_to_dsl_array(_)
\* windows_to_dsl_array: the reversed binary digits of each window, padded
\* to 3, joined
windows_to_dsl_array(ws) ==
    IF Len(ws) = 0 THEN << >>
    ELSE LeftAligned3(Reversed(BinDigits(Head(ws))))
           \o windows_to_dsl_array(Tail(ws))

RECURSIVE Zeros(_)
Zeros(n) == IF n <= 0 THEN << >> ELSE <<0>> \o Zeros(n - 1)

Min(a, b) == IF a < b THEN a ELSE b

RECURSIVE accumulate_skipping_zero(_, _, _, _)
\* the accumulation leaving out the segments whose window is 0
accumulate_skipping_zero(generators, windows, i, result) ==
    IF i > Min(Len(generators), Len(windows)) \/ ~Evaluated(result) THEN result
    ELSE LET window  == windows[i]
             segment == mult(BabyJubJub, generators[i], (window % 4) + 1)
             signed  == IF window > 3 THEN neg(BabyJubJub, segment) ELSE segment
         IN  accumulate_skipping_zero(generators, windows, i + 1,
                        IF window = 0 THEN result
                        ELSE add(BabyJubJub, result, signed))

RECURSIVE accumulate(_, _, _, _)
\* for (g, window) in zip(self.generators, windows): result += +-g * m
accumulate(generators, windows, i, result) ==
    IF i > Min(Len(generators), Len(windows)) \/ ~Evaluated(result) THEN result
    ELSE LET window  == windows[i]
             segment == mult(BabyJubJub, generators[i], (window % 4) + 1)
             signed  == IF window > 3 THEN neg(BabyJubJub, segment) ELSE segment
         IN  accumulate(generators, windows, i + 1,
                        add(BabyJubJub, result, signed))

Result(h, err, point, bits) ==
    [h |-> h, err |-> err, point |-> point, bits |-> bits]

\* __hash_windows, the block under "if self.is_sized == False": the hasher
\* after it.  gens is what __gen_generators gives for len(windows) segments;
\* when it raises, segments and is_sized are already assigned
size_on_first_call(h, windows, gens) ==
    IF h.is_sized THEN h
    ELSE IF gens.err # "none"
    THEN [h EXCEPT !.segments = Len(windows),
                   !.is_sized = TRUE]
    ELSE [h EXCEPT !.segments = Len(windows),
                   !.is_sized = TRUE,
                   !.has_generators = TRUE,
                   !.generators = gens.val]

\* __hash_windows after the sizing block: the length check (the spec's
\* LengthMismatch, an assert in the code), the padding, then the witness
\* bits or the accumulated point; reading self.generators fails with
\* AttributeError when the attribute was never assigned
hash_windows_sized(h1, windows, witness) ==
    LET segments == h1.segments
        padded   == windows \o Zeros(segments - Len(windows))
    IN  IF Len(windows) > segments
        THEN Result(h1, "LengthMismatch", NoPoint, << >>)
        ELSE IF witness
        THEN Result(h1, "none", NoPoint, windows_to_dsl_array(padded))
        ELSE IF ~h1.has_generators
        THEN Result(h1, "AttributeError", NoPoint, << >>)
        ELSE Result(h1, "none",
                    accumulate(h1.generators, padded, 1, infinity(BabyJubJub)),
                    << >>)

\* a variant that sizes the hasher on every call
hash_windows_resizing(h, windows, witness, gens) ==
    IF gens.err # "none"
    THEN Result(size_on_first_call([h EXCEPT !.is_sized = FALSE], windows, gens),
                gens.err, NoPoint, << >>)
    ELSE hash_windows_sized(
             size_on_first_call([h EXCEPT !.is_sized = FALSE], windows, gens),
             windows, witness)

\* a variant that builds the generators whenever they are missing, for the
\* windows of the call at hand rather than for the fixed segment count
hash_windows_late_generators(h, windows, witness, gens) ==
    IF ~h.has_generators /\ gens.err # "none"
    THEN Result(size_on_first_call(h, windows, gens), gens.err, NoPoint, << >>)
    ELSE hash_windows_sized(
             IF h.has_generators THEN h
             ELSE [size_on_first_call(h, windows, gens)
                      EXCEPT !.has_generators = TRUE, !.generators = gens.val],
             windows, witness)

\* PedersenHasher.__hash_windows(windows, witness): the hasher afterwards
\* and what the call returns or raises
hash_windows_sizing(h, windows, witness, gens) ==
    IF ~h.is_sized /\ gens.err # "none"
    THEN Result(size_on_first_call(h, windows, gens), gens.err, NoPoint, << >>)
    ELSE hash_windows_sized(size_on_first_call(h, windows, gens),
                            windows, witness)

hash_windows(h, windows, witness) ==
    hash_windows_sizing(h, windows, witness,
                        gen_generators(h.name, Len(windows)))

\* bits[i : i + 3][::-1] read as a binary number
WindowOfBits(chunk) ==
    chunk[1] + (IF Len(chunk) >= 2 THEN 2 * chunk[2] ELSE 0)
             + (IF Len(chunk) >= 3 THEN 4 * chunk[3] ELSE 0)

RECURSIVE bits_to_windows(_)
\* hash_bits: split into 3-bit windows
bits_to_windows(bits) ==
    IF Len(bits) = 0 THEN << >>
    ELSE <<WindowOfBits(SubSeq(bits, 1, Min(3, Len(bits))))>>
           \o bits_to_windows(SubSeq(bits, 4, Len(bits)))

\* PedersenHasher.hash_bits
hash_bits(h, bits, witness) ==
    LET windows == bits_to_windows(bits)
    IN  IF ~(Len(windows) > 0)
        THEN Result(h, "AssertionError", NoPoint, << >>)
        ELSE hash_windows(h, windows, witness)

\* bin(b)[2:].rjust(8, "0"): the 8 bits of a byte, most significant first
ByteBits(b) ==
    << (b \div 128) % 2, (b \div 64) % 2, (b \div 32) % 2, (b \div 16) % 2,
       (b \div 8) % 2, (b \div 4) % 2, (b \div 2) % 2, b % 2 >>

RECURSIVE BytesBits(_)
BytesBits(data) ==
    IF Len(data) = 0 THEN << >>
    ELSE ByteBits(Head(data)) \o BytesBits(Tail(data))

\* PedersenHasher.hash_bytes
hash_bytes(h, data, witness) ==
    IF ~(Len(data) > 0)
    THEN Result(h, "AssertionError", NoPoint, << >>)
    ELSE hash_bits(h, BytesBits(data), witness)

RECURSIVE scalar_windows_from(_, _)
scalar_windows_from(s, i) ==
    IF i >= BitLength(s) THEN << >>
    ELSE <<(s \div Pow2(i)) % 8>> \o scalar_windows_from(s, i + 3)

\* (s >> i) & 0b111 for i in range(0, s.bit_length(), 3)
scalar_windows(s) == scalar_windows_from(s, 0)

RECURSIVE scalars_windows(_)
scalars_windows(scalars) ==
    IF Len(scalars) = 0 THEN << >>
    ELSE scalar_windows(Head(scalars)) \o scalars_windows(Tail(scalars))

\* PedersenHasher.hash_scalars
hash_scalars(h, scalars, witness) ==
    hash_windows(h, scalars_windows(scalars), witness)

RECURSIVE gen_table_row_from_zero(_, _)
\* a variant whose rows are [0p, 1p, 2p, 3p]
gen_table_row_from_zero(g, i) ==
    IF i >= WINDOW_SIZE_BITS * WINDOW_SIZE_BITS THEN << >>
    ELSE <<mult(BabyJubJub, g, i)>> \o gen_table_row_from_zero(g, i + 1)

RECURSIVE gen_table_row(_, _)
\* [p.mult(i + 1) for i in range(0, WINDOW_SIZE_BITS ** 2)]
gen_table_row(g, i) ==
    IF i >= WINDOW_SIZE_BITS * WINDOW_SIZE_BITS THEN << >>
    ELSE <<mult(BabyJubJub, g, i + 1)>> \o gen_table_row(g, i + 1)

RECURSIVE gen_table_rows(_)
gen_table_rows(generators) ==
    IF Len(generators) = 0 THEN << >>
    ELSE <<gen_table_row(Head(generators), 0)>>
           \o gen_table_rows(Tail(generators))

\* PedersenHasher.__gen_table: a row [p, 2p, 3p, 4p] per generator
gen_table(h) ==
    IF ~h.is_sized THEN Raise("AssertionError")
    ELSE IF ~h.has_generators THEN Raise("AttributeError")
    ELSE Ok(gen_table_rows(h.generators))

---------------------------------------------------------------------------
(* Pedersen runs: a hasher is constructed, then called in any order *)

\* largest explicit segment count given to the constructor
MaxSegments == 3

NameTest == <<116, 101, 115, 116>>

Name28 == [k \in 1..MAX_NAME_LEN |-> 120]

Name29 == [k \in 1..(MAX_NAME_LEN + 1) |-> 120]

Names == {NameTest, Name28, Name29}

DataInputs == { << >>, <<97>>, <<97, 98>> }

BitInputs == { << >>, <<1>>, <<1, 0, 1, 1>> }

ScalarInputs == { << >>, <<0>>, <<9, 9>> }

NoCall == [op |-> "none", err |-> "no call"]

\* log when no call is to be remembered
LogOff == [op |-> "off", err |-> "no call"]

PedersenInit ==
    /\ sqrtRoot \in {"low", "high"}
    /\ hashSeed \in 0..MaxSeed
    /\ \E n \in Names : \E sg \in 0..MaxSegments : hasher = NewHasher(n, sg)
    /\ ret = NoCall
    /\ log = LogOff
    /\ cv = CvIdle
    /\ ed = EdIdle
    /\ shared = [pc |-> "idle"]
    /\ th = << >>

\* what a call leaves behind: the hasher as the call left it, the call and
\* its outcome in ret; a successful point-mode hash_bytes call may be
\* remembered in log
Call(op, witness, windows, data, r) ==
    LET ok   == r.err = "none"
        nwin == Len(windows)
        h2   == [r.h EXCEPT !.first = IF ok /\ @ = None THEN nwin ELSE @]
        call == [op |-> op, witness |-> witness, nwin |-> nwin,
                 windows |-> windows, data |-> data, err |-> r.err, point |-> r.point,
                 bits |-> r.bits, name |-> h2.name, segments |-> h2.segments]
    IN  /\ hasher' = h2
        /\ ret' = call
        /\ \/ log' = log
           \/ /\ log = NoCall
              /\ op = "hash_bytes" /\ ~witness /\ ok
              /\ log' = call
        /\ UNCHANGED <<sqrtRoot, hashSeed, cv, ed, shared, th>>

HashBits ==
    \E bits \in BitInputs : \E witness \in BOOLEAN :
        Call("hash_bits", witness, bits_to_windows(bits), << >>,
             hash_bits(hasher, bits, witness))

HashBytes ==
    \E data \in DataInputs : \E witness \in BOOLEAN :
        Call("hash_bytes", witness, bits_to_windows(BytesBits(data)),
             data, hash_bytes(hasher, data, witness))

HashScalars ==
    \E scalars \in ScalarInputs : \E witness \in BOOLEAN :
        Call("hash_scalars", witness, scalars_windows(scalars), << >>,
             hash_scalars(hasher, scalars, witness))

\* gen_dsl_witness_bits(bits) = hash_bits(bits, witness=True)
GenDslWitnessBits ==
    \E bits \in BitInputs :
        Call("hash_bits", TRUE, bits_to_windows(bits), << >>,
             hash_bits(hasher, bits, TRUE))

GenDslWitnessBytes ==
    \E data \in DataInputs :
        Call("hash_bytes", TRUE, bits_to_windows(BytesBits(data)),
             data, hash_bytes(hasher, data, TRUE))

GenDslWitnessScalars ==
    \E scalars \in ScalarInputs :
        Call("hash_scalars", TRUE, scalars_windows(scalars), << >>,
             hash_scalars(hasher, scalars, TRUE))

\* the dsl_code property: builds the lookup table
DslCode ==
    LET t == gen_table(hasher)
    IN  /\ ret' = [op |-> "dsl_code", witness |-> FALSE, nwin |-> 0,
                   windows |-> << >>, data |-> << >>, err |-> t.err, point |-> NoPoint,
                   bits |-> << >>, name |-> hasher.name,
                   segments |-> hasher.segments]
        /\ UNCHANGED <<sqrtRoot, hashSeed, cv, ed, hasher, log, shared, th>>

Next ==
    \/ HashBits
    \/ HashBytes
    \/ HashScalars
    \/ GenDslWitnessBits
    \/ GenDslWitnessBytes
    \/ GenDslWitnessScalars
    \/ DslCode

Spec == PedersenInit /\ [][Next]_vars

\* the last step was a hash or witness call
IsCall == ret.op \in {"hash_bits", "hash_bytes", "hash_scalars"}

\* the width and cache of a hasher: segment count, sized flag, generators
Sizing(h) == <<h.segments, h.is_sized, h.has_generators, h.generators>>

\* C3: on a hasher created without a segment count, the first successful
\* call fixes the segment count to its window count, and a later call with
\* more windows than that fails with LengthMismatch and returns nothing
C3_FirstCallFixesWidth ==
    (IsCall /\ ~hasher.explicit /\ hasher.first # None) =>
        /\ hasher.segments = hasher.first
        /\ ret.nwin > hasher.first =>
               /\ ret.err = "LengthMismatch"
               /\ ret.point = NoPoint
               /\ ret.bits = << >>

\* C4: a hash or witness call that fails leaves the segment count, the sized
\* flag and the generator cache as they were before the call
C4_NoPartialMutation ==
    [][ (ret'.op \in {"hash_bits", "hash_bytes", "hash_scalars"}
            /\ ret'.err # "none")
        => Sizing(hasher') = Sizing(hasher) ]_vars

\* a hasher of the given name whose width n was fixed by its first call
LazilyFixed(name, n) == hash_windows(NewHasher(name, 0), Zeros(n), TRUE).h

\* C5: on a hasher constructed with segment count N (and an admissible
\* name), a hash call with at least one and at most N windows succeeds with
\* the point a hasher lazily fixed to N returns, and the lookup table can
\* be generated
C5_ExplicitWidthWorks ==
    (hasher.explicit /\ Len(hasher.name) <= MAX_NAME_LEN) =>
        /\ (IsCall /\ ~ret.witness /\ ret.nwin > 0
               /\ ret.nwin <= hasher.segments) =>
               /\ ret.err = "none"
               /\ ret.point =
                    hash_windows(LazilyFixed(hasher.name, hasher.segments),
                                 ret.windows, FALSE).point
        /\ ret.op = "dsl_code" => ret.err = "none"

\* C6: once the segment count is fixed, no hash or witness call, successful
\* or failing, changes the segment count or the generator sequence
C6_FixedWidthImmutable ==
    [][ hasher.is_sized => Sizing(hasher') = Sizing(hasher) ]_vars

\* a lazily sized hasher was called again, with another window count, and
\* the call succeeded
C6_Witness ==
    /\ IsCall /\ ret.err = "none"
    /\ hasher.has_generators
    /\ hasher.first # None /\ ret.nwin # hasher.first

\* C11: a successful witness-mode call returns 3 bits per segment: window j
\* of the zero-padded windows at positions 3j..3j+2, least significant bit
\* first, and 000 for every padded window
C11_WitnessBitLayout ==
    (IsCall /\ ret.witness /\ ret.err = "none") =>
        /\ Len(ret.bits) = 3 * hasher.segments
        /\ \A j \in 0..(hasher.segments - 1) :
              LET w == IF j < ret.nwin THEN ret.windows[j + 1] ELSE 0
              IN  /\ ret.bits[3 * j + 1] = w % 2
                  /\ ret.bits[3 * j + 2] = (w \div 2) % 2
                  /\ ret.bits[3 * j + 3] = (w \div 4) % 2

\* a witness was returned for windows that are not palindromes in binary
\* and were padded
C11_Witness ==
    /\ IsCall /\ ret.witness /\ ret.err = "none"
    /\ ret.nwin > 0 /\ ret.nwin < hasher.segments
    /\ \E j \in 1..ret.nwin : ret.windows[j] \in {1, 3, 4, 6}

\* C9: no hash or witness call on a hasher whose name is longer than 28
\* bytes returns a point or a witness
C9_LongNameRejected ==
    (IsCall /\ Len(hasher.name) > MAX_NAME_LEN) => ret.err # "none"

\* C10: in every hasher state, for every input, the witness-mode call is
\* accepted exactly when the point-mode call is, and fails with the same
\* error otherwise
C10_WitnessSharesValidation ==
    /\ \A bits \in BitInputs :
          hash_bits(hasher, bits, TRUE).err = hash_bits(hasher, bits, FALSE).err
    /\ \A data \in DataInputs :
          hash_bytes(hasher, data, TRUE).err = hash_bytes(hasher, data, FALSE).err
    /\ \A scalars \in ScalarInputs :
          hash_scalars(hasher, scalars, TRUE).err
            = hash_scalars(hasher, scalars, FALSE).err

---------------------------------------------------------------------------
(* Two hashers, one after the other: a successful hash_bytes call on the    *)
(* first is remembered in log while a second hasher is constructed and      *)
(* called.  Hashers share no state, so this covers any two calls on two     *)
(* hashers as well as two calls on one.                                     *)

TwiceInit ==
    /\ sqrtRoot \in {"low", "high"}
    /\ hashSeed \in 0..MaxSeed
    /\ \E n \in Names : \E sg \in 0..MaxSegments : hasher = NewHasher(n, sg)
    /\ ret = NoCall
    /\ log = NoCall
    /\ cv = CvIdle
    /\ ed = EdIdle
    /\ shared = [pc |-> "idle"]
    /\ th = << >>

\* a new PedersenHasher(name, segments) takes the place of the old one
Construct ==
    /\ \E n \in Names : \E sg \in 0..MaxSegments : hasher' = NewHasher(n, sg)
    /\ ret' = NoCall
    /\ UNCHANGED <<sqrtRoot, hashSeed, cv, ed, log, shared, th>>

TwiceNext ==
    \/ HashBytes
    \/ GenDslWitnessBytes
    \/ HashScalars
    \/ Construct

SpecTwice == TwiceInit /\ [][TwiceNext]_vars

\* the last call is a successful point-mode hash_bytes call with the
\* personalization and preimage of the remembered one
SameCallAgain ==
    /\ log.op = "hash_bytes"
    /\ ret.op = "hash_bytes" /\ ~ret.witness /\ ret.err = "none"
    /\ ret.name = log.name
    /\ ret.data = log.data

\* C7 as stated: any two hash_bytes calls with the same personalization and
\* the same preimage return the same point
C7_SamePreimageSamePoint ==
    SameCallAgain => ret.point = log.point

\* C7 amended: two hash_bytes calls with the same personalization and the
\* same preimage, on hashers fixed to the same segment count, return the
\* same point
C7_SameWidthSamePoint ==
    (SameCallAgain /\ ret.segments = log.segments) => ret.point = log.point

\* the call was repeated at equal width, and its windows were zero-padded
C7_Witness ==
    /\ SameCallAgain /\ ret.segments = log.segments
    /\ ret.nwin < ret.segments

---------------------------------------------------------------------------
(* Two threads call hash_bytes on one shared hasher that is not sized yet.  *)
(* __hash_windows takes no lock, so the threads interleave between its      *)
(* statements: the test of is_sized, the three assignments of the sizing    *)
(* block, the read of self.segments, the length check, the accumulation.    *)

ConcThreads == {1, 2}

ConcInputs == DataInputs \ { << >> }

ThreadStart(data, witness) ==
    [ pc |-> "test_sized",
      windows |-> bits_to_windows(BytesBits(data)),
      witness |-> witness,
      observed |-> "nothing",   \* what the is_sized test found
      gens |-> Ok(<< >>),       \* local: what __gen_generators returned
      segments |-> None,        \* local: segments = self.segments
      used |-> None,            \* length of the generator list accumulated over
      err |-> "none",
      point |-> NoPoint,
      bits |-> << >> ]

ConcInit ==
    /\ sqrtRoot \in {"low", "high"}
    /\ hashSeed \in 0..MaxSeed
    /\ shared = NewHasher(NameTest, 0)
    /\ \E d1 \in ConcInputs, d2 \in ConcInputs, w1 \in BOOLEAN, w2 \in BOOLEAN :
          th = [t \in ConcThreads |->
                   IF t = 1 THEN ThreadStart(d1, w1) ELSE ThreadStart(d2, w2)]
    /\ hasher = [name |-> << >>]
    /\ ret = [pc |-> "idle"]
    /\ log = {}
    /\ cv = CvIdle
    /\ ed = EdIdle

ConcUnchanged == UNCHANGED <<sqrtRoot, hashSeed, cv, ed, hasher, ret, log>>

\* if self.is_sized == False:
TestSized(t) ==
    /\ th[t].pc = "test_sized"
    /\ th' = [th EXCEPT
                 ![t].pc = IF shared.is_sized THEN "read_segments"
                           ELSE "set_segments",
                 ![t].observed =
                     IF ~shared.is_sized THEN "unsized"
                     ELSE IF shared.has_generators
                               /\ Len(shared.generators) = shared.segments
                     THEN "sized" ELSE "sized without its generators"]
    /\ UNCHANGED shared
    /\ ConcUnchanged

\* self.segments = len(windows)
SetSegments(t) ==
    /\ th[t].pc = "set_segments"
    /\ shared' = [shared EXCEPT !.segments = Len(th[t].windows)]
    /\ th' = [th EXCEPT ![t].pc = "set_sized"]
    /\ ConcUnchanged

\* self.is_sized = True
SetSized(t) ==
    /\ th[t].pc = "set_sized"
    /\ shared' = [shared EXCEPT !.is_sized = TRUE]
    /\ th' = [th EXCEPT ![t].pc = "gen_generators"]
    /\ ConcUnchanged

\* self.__gen_generators(): reads self.name and self.segments as they are now
GenGenerators(t) ==
    /\ th[t].pc = "gen_generators"
    /\ LET gens == gen_generators(shared.name, shared.segments)
       IN  th' = [th EXCEPT
                    ![t].gens = gens,
                    ![t].err = gens.err,
                    ![t].pc = IF gens.err = "none" THEN "store_generators"
                              ELSE "done"]
    /\ UNCHANGED shared
    /\ ConcUnchanged

\* self.generators = <the list returned>
StoreGenerators(t) ==
    /\ th[t].pc = "store_generators"
    /\ shared' = [shared EXCEPT !.has_generators = TRUE,
                                !.generators = th[t].gens.val]
    /\ th' = [th EXCEPT ![t].pc = "read_segments"]
    /\ ConcUnchanged

\* segments = self.segments
ReadSegments(t) ==
    /\ th[t].pc = "read_segments"
    /\ th' = [th EXCEPT ![t].segments = shared.segments,
                        ![t].pc = "check_length"]
    /\ UNCHANGED shared
    /\ ConcUnchanged

\* the length assert, the padding, and the return of witness mode
CheckLength(t) ==
    /\ th[t].pc = "check_length"
    /\ th' = [th EXCEPT
                 ![t].windows =
                     IF Len(@) > th[t].segments THEN @
                     ELSE @ \o Zeros(th[t].segments - Len(@)),
                 ![t].err =
                     IF Len(th[t].windows) > th[t].segments
                     THEN "LengthMismatch" ELSE "none",
                 ![t].bits =
                     IF Len(th[t].windows) <= th[t].segments /\ th[t].witness
                     THEN windows_to_dsl_array(
                              th[t].windows
                                \o Zeros(th[t].segments - Len(th[t].windows)))
                     ELSE << >>,
                 ![t].pc =
                     IF Len(th[t].windows) > th[t].segments \/ th[t].witness
                     THEN "done" ELSE "accumulate"]
    /\ UNCHANGED shared
    /\ ConcUnchanged

\* for (g, window) in zip(self.generators, windows): ...; return result
Accumulate(t) ==
    /\ th[t].pc = "accumulate"
    /\ th' = [th EXCEPT
                 ![t].err = IF shared.has_generators THEN "none"
                            ELSE "AttributeError",
                 ![t].used = IF shared.has_generators
                             THEN Len(shared.generators) ELSE None,
                 ![t].point =
                     IF shared.has_generators
                     THEN accumulate(shared.generators, th[t].windows, 1,
                                     infinity(BabyJubJub))
                     ELSE NoPoint,
                 ![t].pc = "done"]
    /\ UNCHANGED shared
    /\ ConcUnchanged

ConcNext ==
    \E t \in ConcThreads :
        \/ TestSized(t)
        \/ SetSegments(t)
        \/ SetSized(t)
        \/ GenGenerators(t)
        \/ StoreGenerators(t)
        \/ ReadSegments(t)
        \/ CheckLength(t)
        \/ Accumulate(t)

SpecConc == ConcInit /\ [][ConcNext]_vars

\* C8: two concurrent first calls on a shared hasher complete against one
\* segment count and one generator list, and neither finds the hasher
\* marked as sized while its generators are missing or were built for
\* another segment count
C8_AtomicSizing ==
    /\ \A t \in ConcThreads :
          /\ th[t].observed # "sized without its generators"
          /\ th[t].err # "AttributeError"
          /\ th[t].used # None => th[t].used = th[t].segments
    /\ (\A t \in ConcThreads : th[t].pc = "done") =>
          \A t \in ConcThreads, u \in ConcThreads :
              th[t].segments = th[u].segments

---------------------------------------------------------------------------
(* The precomputed-table hash against direct accumulation.  zokrates/       *)
(* pedersen.py has both as functions of (name, windows); PedersenHasher     *)
(* builds the same table from its generators (__gen_table) for the circuit, *)
(* which selects row[window & 3] and negates it for windows above 3.        *)

\* longest window sequence hashed
MaxWindows == 2

RECURSIVE WindowSeqs(_)
\* the sequences of at most n windows, each in 0..7
WindowSeqs(n) ==
    IF n = 0 THEN { << >> }
    ELSE WindowSeqs(n - 1)
           \cup { Append(ws, w) : ws \in {v \in WindowSeqs(n - 1) : Len(v) = n - 1},
                                  w \in 0..7 }

\* zokrates/pedersen.py pedersen_hash_windows: the schedule of base points
\* and doublings is that of __gen_generators, the sum that of __hash_windows
pedersen_hash_windows_from(gens, windows) ==
    IF gens.err # "none" THEN gens
    ELSE Ok(accumulate(gens.val, windows, 1, infinity(BabyJubJub)))

pedersen_hash_windows(name, windows) ==
    pedersen_hash_windows_from(gen_generators(name, Len(windows)), windows)

\* pedersen_hash_gen_table: a row [p, 2p, 3p, 4p] per segment
pedersen_hash_gen_table_from(gens) ==
    IF gens.err # "none" THEN gens ELSE Ok(gen_table_rows(gens.val))

pedersen_hash_gen_table(name, segments) ==
    pedersen_hash_gen_table_from(gen_generators(name, segments))

RECURSIVE table_lookup(_, _, _, _)
\* for j, window in enumerate(windows): c = table[j][window & 0b11];
\* if window > 0b11: c = c.neg(); a += c
table_lookup(table, windows, j, a) ==
    IF j > Len(windows) \/ ~Evaluated(a) THEN a
    ELSE LET c == table[j][(windows[j] % 4) + 1]
         IN  table_lookup(table, windows, j + 1,
                 add(BabyJubJub, a,
                     IF windows[j] > 3 THEN neg(BabyJubJub, c) ELSE c))

\* pedersen_hash_windowed_table
pedersen_hash_windowed_table_from(table, windows) ==
    IF table.err # "none" THEN table
    ELSE Ok(table_lookup(table.val, windows, 1, infinity(BabyJubJub)))

pedersen_hash_windowed_table(name, windows) ==
    pedersen_hash_windowed_table_from(
        pedersen_hash_gen_table(name, Len(windows)), windows)

NotRun == [err |-> "not run", val |-> NoPoint]

TableInit ==
    /\ sqrtRoot \in {"low", "high"}
    /\ hashSeed \in 0..MaxSeed
    /\ \E n \in {NameTest, Name29} : hasher = NewHasher(n, 0)
    /\ \E ws \in WindowSeqs(MaxWindows) :
          ret = [windows |-> ws, direct |-> NotRun, table |-> NotRun,
                 hashed |-> NotRun, looked |-> NotRun]
    /\ log = LogOff
    /\ cv = CvIdle
    /\ ed = EdIdle
    /\ shared = [pc |-> "idle"]
    /\ th = << >>

TableUnchanged == UNCHANGED <<sqrtRoot, hashSeed, cv, ed, log, shared, th>>

PedersenHashWindows ==
    /\ ret.direct = NotRun
    /\ ret' = [ret EXCEPT !.direct =
                   pedersen_hash_windows(hasher.name, ret.windows)]
    /\ UNCHANGED hasher
    /\ TableUnchanged

PedersenHashWindowedTable ==
    /\ ret.table = NotRun
    /\ ret' = [ret EXCEPT !.table =
                   pedersen_hash_windowed_table(hasher.name, ret.windows)]
    /\ UNCHANGED hasher
    /\ TableUnchanged

\* what a point-mode call of the hasher leaves: the hasher, error and point
HasherHashed(r) ==
    /\ hasher' = r.h
    /\ ret' = [ret EXCEPT !.hashed = [err |-> r.err, val |-> r.point]]

\* the hasher hashes the windows in point mode (its first call)
HasherHash ==
    /\ ret.hashed = NotRun
    /\ HasherHashed(hash_windows(hasher, ret.windows, FALSE))
    /\ TableUnchanged

\* what looking the windows up in a table gives
Looked(table) ==
    ret' = [ret EXCEPT !.looked =
               IF table.err # "none" THEN table
               ELSE Ok(table_lookup(table.val, ret.windows, 1,
                                    infinity(BabyJubJub)))]

\* the windows are looked up in the table the hasher generates
HasherTable ==
    /\ ret.hashed # NotRun /\ ret.looked = NotRun
    /\ Looked(gen_table(hasher))
    /\ UNCHANGED hasher
    /\ TableUnchanged

TableNext ==
    \/ PedersenHashWindows
    \/ PedersenHashWindowedTable
    \/ HasherHash
    \/ HasherTable

SpecTable == TableInit /\ [][TableNext]_vars

\* C12: for every name and window sequence the table hash returns what
\* direct accumulation returns (the same point, or the same error), both
\* for the two functions and for a hasher and the table it generates
C12_TableEqualsDirect ==
    /\ (ret.direct # NotRun /\ ret.table # NotRun) => ret.table = ret.direct
    /\ (ret.hashed.err = "none" /\ ret.looked # NotRun) =>
           ret.looked = ret.hashed

\* both hashes returned a point for two windows, one of them negated
C12_Witness ==
    /\ ret.direct.err = "none" /\ ret.table.err = "none"
    /\ ret.hashed.err = "none" /\ ret.looked.err = "none"
    /\ Len(ret.windows) = 2
    /\ ret.windows[1] > 3 /\ ret.windows[2] \in 1..3

---------------------------------------------------------------------------
(* from_hash, statement by statement: the digest, the retry loop over the   *)
(* candidates y, the multiplication by the cofactor, the subgroup check.    *)

\* longest entropy hashed to the curve
MaxEntropyLen == 3

RECURSIVE ByteStrings(_)
\* the byte strings over {0, 97, 255} of at most n bytes
ByteStrings(n) ==
    IF n = 0 THEN { << >> }
    ELSE ByteStrings(n - 1)
           \cup { Append(b, x) : b \in {v \in ByteStrings(n - 1) : Len(v) = n - 1},
                                 x \in {0, 97, 255} }

HashInit ==
    /\ EnvInit
    /\ \E c \in Curves : \E entropy \in ByteStrings(MaxEntropyLen) :
          cv = [pc |-> "sha256", c |-> c, entropy |-> entropy, y |-> None,
                tries |-> 0, p |-> NoPoint, err |-> "none"]
    /\ ed = EdIdle
    /\ hasher = [name |-> << >>]
    /\ ret = [pc |-> "idle"]
    /\ log = {}
    /\ shared = [pc |-> "idle"]
    /\ th = << >>

HashUnchanged ==
    UNCHANGED <<sqrtRoot, hashSeed, ed, hasher, ret, log, shared, th>>

\* entropy = sha256(entropy).digest(); y = FIELD_TYPE(int.from_bytes(entropy))
HashEntropy ==
    /\ cv.pc = "sha256"
    /\ cv' = [cv EXCEPT !.y = FQ(cv.c.Q, int_from_bytes(sha256(cv.entropy))),
                        !.pc = "from_y"]
    /\ HashUnchanged

\* one round of "while True": from_y(y) raised SquareRootError, or returned
\* the point that is then multiplied by the cofactor
Tried(q) ==
    cv' = IF q.err = "SquareRootError"
          THEN [cv EXCEPT !.y = fadd(cv.c.Q, cv.y, FQ(cv.c.Q, 1)),
                          !.tries = cv.tries + 1]
          ELSE [cv EXCEPT !.p = mult(cv.c, q.val, cv.c.C),
                          !.pc = "check"]

\* except SquareRootError: y += 1; continue
Retry ==
    /\ cv.pc = "from_y"
    /\ from_y(cv.c, cv.y, None).err = "SquareRootError"
    /\ Tried(from_y(cv.c, cv.y, None))
    /\ HashUnchanged

\* p = cls.from_y(y); p = p * cls.JUBJUB_C
MultiplyByCofactor ==
    /\ cv.pc = "from_y"
    /\ from_y(cv.c, cv.y, None).err = "none"
    /\ Tried(from_y(cv.c, cv.y, None))
    /\ HashUnchanged

\* the outcome of the subgroup check: RuntimeError, or p is returned
Checked(r) ==
    cv' = [cv EXCEPT !.err = r.err, !.pc = "done"]

\* if (p * cls.JUBJUB_L) != type(p).infinity(): raise RuntimeError; return p
CheckSubgroup ==
    /\ cv.pc = "check"
    /\ Checked(from_hash_check(cv.c, cv.p))
    /\ HashUnchanged

HashNext ==
    \/ HashEntropy
    \/ Retry
    \/ MultiplyByCofactor
    \/ CheckSubgroup

SpecHash == HashInit /\ [][HashNext]_vars

\* from_hash has returned a point
Returned == cv.pc = "done" /\ cv.err = "none"

\* the steps compute what the function computes
StepsAreFromHash ==
    cv.pc = "done" =>
        LET r == from_hash(cv.c, cv.entropy)
        IN  r.err = cv.err /\ (r.err = "none" => r.val = cv.p)

\* C13: a point returned by from_hash satisfies the curve equation and
\* multiplied by L gives the identity
C13_FromHashInSubgroup ==
    Returned =>
        /\ valid(cv.c, cv.p)
        /\ mult(cv.c, cv.p, cv.c.L) = infinity(cv.c)

\* a point was returned after at least one retry
C13_Witness == Returned /\ cv.tries > 0 /\ cv.p # infinity(cv.c)

\* the number of retries after which the call must give up
RetryBound == 2

\* C14: the retry loop of from_hash is bounded: no retry is made once the
\* bound is reached, the call ends with an error instead
C14_RetryBounded ==
    [][ cv'.tries > cv.tries => cv.tries < RetryBound ]_vars

\* C15: the point returned by from_hash is never the identity: it has
\* order L
C15_FromHashNotIdentity ==
    Returned =>
        /\ cv.p # infinity(cv.c)
        /\ mult(cv.c, cv.p, cv.c.L) = infinity(cv.c)

---------------------------------------------------------------------------
(* Point operations called on points of the curve: the class methods       *)
(* from_y and from_hash take no point, neg, double, mult, compress and     *)
(* decompress take one, add takes two.                                      *)

\* largest scalar a point is multiplied by
MaxMult == 9

AlgebraInit ==
    /\ EnvInit
    /\ \E c \in Curves :
          \E args \in { << >> } \cup { <<P>> : P \in CurvePoints(c) }
                      \cup { <<P, Q>> : P \in CurvePoints(c), Q \in CurvePoints(c) } :
             cv = [c |-> c, args |-> args, op |-> "none", in |-> << >>,
                   out |-> Raise("not run"), shortcut |-> FALSE]
    /\ ed = EdIdle
    /\ hasher = [name |-> << >>]
    /\ ret = [pc |-> "idle"]
    /\ log = {}
    /\ shared = [pc |-> "idle"]
    /\ th = << >>

AlgebraUnchanged ==
    UNCHANGED <<sqrtRoot, hashSeed, ed, hasher, ret, log, shared, th>>

\* the call op(in) on cv.args ended with r
Called(op, in, r, shortcut) ==
    /\ cv' = [cv EXCEPT !.op = op, !.in = in, !.out = r, !.shortcut = shortcut]
    /\ AlgebraUnchanged

RECURSIVE mult_shortcut(_, _, _, _)
\* whether the loop of mult calls add with (0,0) as its first operand
mult_shortcut(c, p, a, scalar) ==
    IF scalar = 0 THEN FALSE
    ELSE \/ scalar % 2 # 0 /\ a = Point(0, 0)
         \/ p = Point(0, 0)
         \/ mult_shortcut(c, double(c, p),
                          IF scalar % 2 # 0 THEN add(c, a, p) ELSE a,
                          scalar \div 2)

Add ==
    /\ cv.op = "none" /\ Len(cv.args) = 2
    /\ Called("add", << >>, Ok(add(cv.c, cv.args[1], cv.args[2])),
              cv.args[1] = Point(0, 0))

Double ==
    /\ cv.op = "none" /\ Len(cv.args) = 1
    /\ Called("double", << >>, Ok(double(cv.c, cv.args[1])),
              cv.args[1] = Point(0, 0))

Neg ==
    /\ cv.op = "none" /\ Len(cv.args) = 1
    /\ Called("neg", << >>, Ok(neg(cv.c, cv.args[1])), FALSE)

Mult ==
    /\ cv.op = "none" /\ Len(cv.args) = 1
    /\ \E scalar \in 0..MaxMult :
          Called("mult", <<scalar>>, Ok(mult(cv.c, cv.args[1], scalar)),
                 mult_shortcut(cv.c, cv.args[1], infinity(cv.c), scalar))

FromY ==
    /\ cv.op = "none" /\ Len(cv.args) = 0
    /\ \E y \in 0..(cv.c.Q - 1) : \E sgn \in {0, 1, None} :
          Called("from_y", <<y, sgn>>, from_y(cv.c, y, sgn), FALSE)

DecompressCompressed ==
    /\ cv.op = "none" /\ Len(cv.args) = 1
    /\ Called("decompress", compress(cv.c, cv.args[1]).val,
              decompress(cv.c, compress(cv.c, cv.args[1]).val), FALSE)

FromX ==
    /\ cv.op = "none" /\ Len(cv.args) = 0
    /\ \E x \in 0..(cv.c.Q - 1) :
          Called("from_x", <<x>>, from_x(cv.c, x), FALSE)

FromHash ==
    /\ cv.op = "none" /\ Len(cv.args) = 0
    /\ \E entropy \in ByteStrings(MaxEntropyLen) :
          Called("from_hash", entropy, from_hash(cv.c, entropy), FALSE)

AlgebraNext ==
    \/ Add
    \/ Double
    \/ Neg
    \/ Mult
    \/ FromY
    \/ FromX
    \/ DecompressCompressed
    \/ FromHash

SpecAlgebra == AlgebraInit /\ [][AlgebraNext]_vars

\* C16: every point that add, double, neg, mult, from_y, decompress or
\* from_hash produce from points of the curve satisfies the curve equation;
\* the pair (0,0) is never produced and the (0,0) branch of add never taken
C16_ClosedUnderOperations ==
    (cv.op # "none" /\ cv.out.err = "none") =>
        /\ valid(cv.c, cv.out.val)
        /\ cv.out.val # Point(0, 0)
        /\ ~cv.shortcut

\* a multiplication and a sum of two different points gave a point that
\* is not the identity
C16_Witness ==
    /\ cv.out.err = "none"
    /\ cv.out.val # infinity(cv.c)
    /\ \/ cv.op = "mult" /\ cv.in[1] > 2
       \/ cv.op = "add" /\ cv.args[1] # cv.args[2]

\* C17: from_y with a sign returns the x whose low bit is the sign, and
\* without a sign the smaller of x and -x
C17_FromYCanonical ==
    (cv.op = "from_y" /\ cv.out.err = "none") =>
        LET x == cv.out.val.x
        IN  IF cv.in[2] # None
            THEN x % 2 = cv.in[2]
            ELSE x <= fneg(cv.c.Q, x)

\* C18: add(P, identity) = P, add(identity, P) = P, add(P, neg(P)) =
\* identity for every point P of the curve
C18_Identities ==
    cv.op = "add" =>
        /\ cv.args[2] = infinity(cv.c) => cv.out.val = cv.args[1]
        /\ cv.args[1] = infinity(cv.c) => cv.out.val = cv.args[2]
        /\ cv.args[2] = neg(cv.c, cv.args[1]) => cv.out.val = infinity(cv.c)

\* a point with both coordinates non-zero was added to its negation
C18_Witness ==
    /\ cv.op = "add"
    /\ cv.args[1].x # 0 /\ cv.args[1].y # 0
    /\ cv.args[2] = neg(cv.c, cv.args[1])
    /\ cv.out.val = infinity(cv.c)

---------------------------------------------------------------------------
(* The generator multiplied by scalars, as the tests of the curves do:     *)
(* test_multiplicative, test_associativity and test_cyclic.                 *)

\* largest scalar of the tests
MaxScalar == 9

MultInit ==
    /\ EnvInit
    /\ \E c \in Curves : \E a \in 0..MaxScalar, b \in 0..MaxScalar, d \in 0..MaxScalar :
          cv = [c |-> c, a |-> a, b |-> b, d |-> d,
                test |-> "none", results |-> << >>]
    /\ ed = EdIdle
    /\ hasher = [name |-> << >>]
    /\ ret = [pc |-> "idle"]
    /\ log = {}
    /\ shared = [pc |-> "idle"]
    /\ th = << >>

MultUnchanged ==
    UNCHANGED <<sqrtRoot, hashSeed, ed, hasher, ret, log, shared, th>>

\* test_multiplicative: AB = G.mult(ab), A.mult(b), B.mult(a)
TestMultiplicative ==
    /\ cv.test = "none"
    /\ cv' = [cv EXCEPT !.test = "multiplicative", !.results =
                 << mult(cv.c, generator(cv.c), (cv.a * cv.b) % cv.c.E),
                    mult(cv.c, mult(cv.c, generator(cv.c), cv.a), cv.b),
                    mult(cv.c, mult(cv.c, generator(cv.c), cv.b), cv.a) >>]
    /\ MultUnchanged

\* test_associativity: G.mult(a).mult(b).mult(c) in three orders
TestAssociativity ==
    /\ cv.test = "none"
    /\ cv' = [cv EXCEPT !.test = "associativity", !.results =
                 << mult(cv.c, mult(cv.c, mult(cv.c, generator(cv.c), cv.a), cv.b), cv.d),
                    mult(cv.c, mult(cv.c, mult(cv.c, generator(cv.c), cv.b), cv.d), cv.a),
                    mult(cv.c, mult(cv.c, mult(cv.c, generator(cv.c), cv.d), cv.a), cv.b) >>]
    /\ MultUnchanged

\* test_cyclic: G.mult(E + 1); G.mult(E); the cofactor multiple times L
TestCyclic ==
    /\ cv.test = "none"
    /\ cv' = [cv EXCEPT !.test = "cyclic", !.results =
                 << mult(cv.c, generator(cv.c), cv.c.E + 1),
                    mult(cv.c, generator(cv.c), cv.c.E),
                    mult(cv.c, mult(cv.c, generator(cv.c), cv.c.C), cv.c.L) >>]
    /\ MultUnchanged

MultNext ==
    \/ TestMultiplicative
    \/ TestAssociativity
    \/ TestCyclic

SpecMult == MultInit /\ [][MultNext]_vars

\* C19: mult(G, (a*b) mod E) = mult(mult(G, a), b) = mult(mult(G, b), a),
\* and three chained multiplications give the same point in every order
C19_MultCompatible ==
    cv.test \in {"multiplicative", "associativity"} =>
        /\ cv.results[2] = cv.results[1]
        /\ cv.results[3] = cv.results[1]

\* two different scalars whose product is above E gave a point that is
\* not the identity
C19_Witness ==
    /\ cv.test = "multiplicative"
    /\ cv.a * cv.b > cv.c.E /\ cv.a # cv.b
    /\ cv.results[1] # infinity(cv.c)
    /\ cv.results[2] = cv.results[1]

\* C20: mult(G, E + 1) = G, mult(G, E) is the identity, and so is
\* mult(mult(G, C), L)
C20_Cyclic ==
    cv.test = "cyclic" =>
        /\ cv.results[1] = generator(cv.c)
        /\ cv.results[2] = infinity(cv.c)
        /\ cv.results[3] = infinity(cv.c)

\* the generator of full order E went round the group
C20_Witness ==
    /\ cv.test = "cyclic"
    /\ cv.results[1] = generator(cv.c)
    /\ mult(cv.c, generator(cv.c), cv.c.L) # infinity(cv.c)

---------------------------------------------------------------------------
(* FQ.inv, one round of its loop at a time, and the division built on it   *)

\* largest field modulus
MaxPrime == 43

Primes == {p \in 2..MaxPrime : \A d \in 2..(p - 1) : p % d # 0}

FieldInit ==
    /\ sqrtRoot = "low"
    /\ hashSeed = 0
    /\ \E p \in Primes : \E n \in 0..(p - 1) :
          cv = [FIELD |-> p, n |-> n, pc |-> "inv", lm |-> 0, hm |-> 0,
                low |-> 0, high |-> 0, rounds |-> 0, inv |-> None,
                x |-> None, div |-> None]
    /\ ed = EdIdle
    /\ hasher = [name |-> << >>]
    /\ ret = [pc |-> "idle"]
    /\ log = {}
    /\ shared = [pc |-> "idle"]
    /\ th = << >>

FieldUnchanged ==
    UNCHANGED <<sqrtRoot, hashSeed, ed, hasher, ret, log, shared, th>>

\* if self.n == 0: return type(self)(0)
InvZero ==
    /\ cv.pc = "inv" /\ cv.n = 0
    /\ cv' = [cv EXCEPT !.pc = "returned", !.inv = FQ(cv.FIELD, 0)]
    /\ FieldUnchanged

\* lm, hm = 1, 0; low, high = self.n % self.FIELD, self.FIELD
InvStart ==
    /\ cv.pc = "inv" /\ cv.n # 0
    /\ cv' = [cv EXCEPT !.pc = "while", !.lm = 1, !.hm = 0,
                        !.low = cv.n % cv.FIELD, !.high = cv.FIELD]
    /\ FieldUnchanged

\* one round of "while low > 1"
InvRound ==
    /\ cv.pc = "while" /\ cv.low > 1
    /\ LET r == cv.high \div cv.low
       IN  cv' = [cv EXCEPT !.lm = cv.hm - cv.lm * r,
                            !.low = cv.high - cv.low * r,
                            !.hm = cv.lm, !.high = cv.low,
                            !.rounds = cv.rounds + 1]
    /\ FieldUnchanged

\* return type(self)(lm)
InvReturn ==
    /\ cv.pc = "while" /\ ~(cv.low > 1)
    /\ cv' = [cv EXCEPT !.pc = "returned", !.inv = FQ(cv.FIELD, cv.lm)]
    /\ FieldUnchanged

\* x / self: __truediv__ is x * self.inv()
Div ==
    /\ cv.pc = "returned"
    /\ \E x \in 0..(cv.FIELD - 1) :
          cv' = [cv EXCEPT !.pc = "divided", !.x = x,
                           !.div = fdiv(cv.FIELD, x, cv.n)]
    /\ FieldUnchanged

FieldNext ==
    \/ InvZero
    \/ InvStart
    \/ InvRound
    \/ InvReturn
    \/ Div

SpecField == FieldInit /\ [][FieldNext]_vars

\* C21: in every prime field the loop of inv terminates (low decreases and
\* stays positive), a * a.inv() is 1 for a # 0, 0.inv() is 0 and x / 0 is 0
C21_InvIsInverse ==
    /\ [](cv.pc \in {"returned", "divided"} =>
            /\ cv.inv = inv(cv.FIELD, cv.n)
            /\ cv.n # 0 => fmul(cv.FIELD, cv.n, cv.inv) = FQ(cv.FIELD, 1)
            /\ cv.n = 0 => cv.inv = 0)
    /\ [](cv.pc = "divided" =>
            /\ cv.n = 0 => cv.div = 0
            /\ cv.n # 0 => fmul(cv.FIELD, cv.div, cv.n) = cv.x)
    /\ [][cv.pc = "while" /\ cv'.pc = "while" =>
            cv'.low < cv.low /\ cv'.low >= 1]_vars

\* an inverse that took several rounds of the loop was used in a division
C21_Witness ==
    /\ cv.pc = "divided" /\ cv.rounds > 2
    /\ cv.x > 1 /\ cv.div > 1

---------------------------------------------------------------------------
(* A hasher sized by its first call, narrow or wider than one base point   *)
(* serves, then called again.                                               *)

\* how many segments past SEGMENTS_PER_BASEPOINT the widest input has
MaxExtra == 1

\* n windows j * k mod 8
WindowPattern(n, k) == [j \in 1..n |-> (j * k) % 8]

SumInputs ==
    WindowSeqs(1)
      \cup { <<1, 6>>, <<7, 0>>, <<0, 0, 0>>, <<2, 5, 3>> }
      \cup { WindowPattern(SEGMENTS_PER_BASEPOINT + e, k) :
                 e \in 0..MaxExtra, k \in {1, 3} }

SumInit ==
    /\ EnvInit
    /\ \E n \in {NameTest, Name28} : hasher = NewHasher(n, 0)
    /\ ret = [calls |-> 0, windows |-> << >>, err |-> "not run",
              point |-> NoPoint]
    /\ log = LogOff
    /\ cv = CvIdle
    /\ ed = EdIdle
    /\ shared = [pc |-> "idle"]
    /\ th = << >>

\* what a point-mode call with the windows leaves
WindowsHashed(windows, r) ==
    /\ hasher' = r.h
    /\ ret' = [calls |-> ret.calls + 1, windows |-> windows, err |-> r.err,
               point |-> r.point]

\* a first and a second call of __hash_windows in point mode
HashWindows ==
    /\ ret.calls < 2
    /\ \E windows \in SumInputs :
          WindowsHashed(windows, hash_windows(hasher, windows, FALSE))
    /\ UNCHANGED <<sqrtRoot, hashSeed, cv, ed, log, shared, th>>

SumNext == HashWindows

SpecSum == SumInit /\ [][SumNext]_vars

RECURSIVE Pow16(_, _)
\* 16^k modulo the curve order E: every point times E is the identity
Pow16(k, r) ==
    IF k = 0 \/ ~Evaluated(r) THEN r
    ELSE Pow16(k - 1, (r * 16) % BabyJubJub.E)

\* base_point(name, b) for the b a hasher of n segments needs
BasePoints(name, n) ==
    [b \in 0..((n - 1) \div SEGMENTS_PER_BASEPOINT) |->
        pedersen_hash_basepoint(name, b).val]

\* G_j = 16^(j mod 62) * base_point(name, j div 62)
SegmentGenerator(bases, j) ==
    mult(BabyJubJub, bases[j \div SEGMENTS_PER_BASEPOINT],
         Pow16(j % SEGMENTS_PER_BASEPOINT, 1))

\* s_j * m_j * G_j for the window w of segment j
SegmentTerm(bases, j, w) ==
    IF w >= 4
    THEN neg(BabyJubJub, mult(BabyJubJub, SegmentGenerator(bases, j), (w % 4) + 1))
    ELSE mult(BabyJubJub, SegmentGenerator(bases, j), (w % 4) + 1)

RECURSIVE SegmentSumFrom(_, _, _, _, _)
\* sum plus the terms of the segments from..(n - 1), windows past the
\* input being 0
SegmentSumFrom(bases, windows, from, n, sum) ==
    IF from >= n \/ ~Evaluated(sum) \/ ~Evaluated(bases) THEN sum
    ELSE SegmentSumFrom(bases, windows, from + 1, n,
             add(BabyJubJub, sum,
                 SegmentTerm(bases, from,
                             IF from < Len(windows) THEN windows[from + 1] ELSE 0)))

SegmentSum(name, windows, from, n, sum) ==
    SegmentSumFrom(BasePoints(name, n), windows, from, n, sum)

\* C22: the point hashed for the zero-padded windows is the group sum over
\* the segments j of s_j * m_j * G_j, G_j = 16^(j mod 62) * base_point(name,
\* j div 62), m_j = (w_j mod 4) + 1, s_j = -1 when w_j >= 4
C22_HashIsSegmentSum ==
    (ret.calls > 0 /\ ret.err = "none") =>
        ret.point = SegmentSum(hasher.name, ret.windows, 0, hasher.segments,
                               infinity(BabyJubJub))

\* windows past the first base point's 62 segments were hashed, the last
\* with a negated term
C22_Witness ==
    /\ ret.calls > 0 /\ ret.err = "none"
    /\ Len(ret.windows) > SEGMENTS_PER_BASEPOINT
    /\ ret.windows[SEGMENTS_PER_BASEPOINT + 1] >= 4
    /\ ret.point # infinity(BabyJubJub)

\* C27: on a hasher fixed to N segments, hashing fewer than N windows
\* gives the point of the windows followed by zero windows: the point of
\* the windows alone plus +1 * generator_j for every padded segment j
C27_PaddingContributes ==
    (ret.calls > 0 /\ ret.err = "none" /\ Len(ret.windows) < hasher.segments) =>
        /\ ret.point =
              hash_windows(hasher,
                           ret.windows \o Zeros(hasher.segments - Len(ret.windows)),
                           FALSE).point
        /\ ret.point =
              SegmentSum(hasher.name, << >>, Len(ret.windows), hasher.segments,
                  SegmentSum(hasher.name, ret.windows, 0, Len(ret.windows),
                             infinity(BabyJubJub)))

\* fewer windows than the width were hashed and the padded segments moved
\* the point
C27_Witness ==
    /\ ret.calls = 2 /\ ret.err = "none"
    /\ Len(ret.windows) > 0 /\ Len(ret.windows) < hasher.segments
    /\ ret.point # SegmentSum(hasher.name, ret.windows, 0, Len(ret.windows),
                              infinity(BabyJubJub))

---------------------------------------------------------------------------
(* mult, one round of its loop at a time                                    *)

MultLoopInit ==
    /\ sqrtRoot = "low"
    /\ hashSeed = 0
    /\ \E c \in Curves : \E P \in CurvePoints(c) :
          \E k \in 0..MaxMult : \E kind \in {"int", "FQ"} :
             cv = [c |-> c, P |-> P, k |-> k, kind |-> kind, pc |-> "mult",
                   scalar |-> None, p |-> NoPoint, a |-> NoPoint, i |-> 0]
    /\ ed = EdIdle
    /\ hasher = [name |-> << >>]
    /\ ret = [pc |-> "idle"]
    /\ log = {}
    /\ shared = [pc |-> "idle"]
    /\ th = << >>

\* if isinstance(scalar, FQ): scalar = scalar.n; p = self; a = infinity()
MultStart ==
    /\ cv.pc = "mult"
    /\ cv' = [cv EXCEPT !.pc = "while",
                        !.scalar = IF cv.kind = "FQ" THEN FQ(cv.c.Q, cv.k) ELSE cv.k,
                        !.p = cv.P, !.a = infinity(cv.c), !.i = 0]
    /\ UNCHANGED <<sqrtRoot, hashSeed, ed, hasher, ret, log, shared, th>>

\* one round of "while scalar != 0"
MultRound ==
    /\ cv.pc = "while" /\ cv.scalar # 0
    /\ cv' = [cv EXCEPT !.a = IF cv.scalar % 2 # 0 THEN add(cv.c, cv.a, cv.p)
                                                   ELSE cv.a,
                        !.p = double(cv.c, cv.p),
                        !.scalar = cv.scalar \div 2,
                        !.i = cv.i + 1]
    /\ UNCHANGED <<sqrtRoot, hashSeed, ed, hasher, ret, log, shared, th>>

\* return a
MultReturn ==
    /\ cv.pc = "while" /\ cv.scalar = 0
    /\ cv' = [cv EXCEPT !.pc = "returned"]
    /\ UNCHANGED <<sqrtRoot, hashSeed, ed, hasher, ret, log, shared, th>>

MultLoopNext ==
    \/ MultStart
    \/ MultRound
    \/ MultReturn

SpecMultLoop == MultLoopInit /\ [][MultLoopNext]_vars

RECURSIVE AddedTimes(_, _, _, _)
\* sum with P added k times
AddedTimes(c, P, k, sum) ==
    IF k = 0 \/ ~Evaluated(sum) THEN sum
    ELSE AddedTimes(c, P, k - 1, add(c, sum, P))

\* C23: the loop of mult ends for every scalar k >= 0, integer or field
\* element (the scalar decreases and stays >= 0), and returns P added to
\* the identity k times: the identity for k = 0, double(P) = add(P, P)
\* for k = 2
C23_MultIsRepeatedAdd ==
    /\ [](cv.pc = "returned" =>
            /\ cv.a = AddedTimes(cv.c, cv.P, cv.k, infinity(cv.c))
            /\ cv.a = mult(cv.c, cv.P, cv.k)
            /\ cv.k = 0 => cv.a = infinity(cv.c)
            /\ cv.k = 2 => cv.a = double(cv.c, cv.P) /\ cv.a = add(cv.c, cv.P, cv.P))
    /\ [][cv.pc = "while" /\ cv'.pc = "while" =>
            cv'.scalar < cv.scalar /\ cv'.scalar >= 0]_vars

\* a point of full order was multiplied by a scalar of several bits
C23_Witness ==
    /\ cv.pc = "returned" /\ cv.k > 4 /\ cv.i > 2
    /\ cv.a # infinity(cv.c) /\ cv.a # cv.P
    /\ mult(cv.c, cv.P, cv.c.L) # infinity(cv.c)

---------------------------------------------------------------------------
\* (A x^2 - 1) / (D x^2 - 1), the square from_x takes the root of
YSquared(c, x) ==
    fdiv(c.Q, fsub(c.Q, fmul(c.Q, c.A, fmul(c.Q, x, x)), FQ(c.Q, 1)),
              fsub(c.Q, fmul(c.Q, c.D, fmul(c.Q, x, x)), FQ(c.Q, 1)))

---------------------------------------------------------------------------
(* zokrates_pycrypto/eddsa.py: the digest is not reduced, from_private     *)
(* takes the base point; and runs of both libraries side by side with a    *)
(* base point given or left to the generator.                               *)

\* hash_to_scalar of zokrates_pycrypto: the digest as an integer
pycrypto_hash_to_scalar(parts) == int_from_bytes(sha256(Concat(parts)))

\* PublicKey.from_private of zokrates_pycrypto: B.mult(sk.fe)
pycrypto_from_private(c, fe, B) ==
    mult(c, IF B # NoPoint THEN B ELSE generator(c), fe)

\* PrivateKey.sign of zokrates_pycrypto
pycrypto_sign(c, fe, M, B) ==
    LET Bp   == IF B # NoPoint THEN B ELSE generator(c)
        A    == pycrypto_from_private(c, fe, NoPoint)
        r    == pycrypto_hash_to_scalar(<<to_bytes_FQ(fe), M>>)
        R    == mult(c, Bp, r)
        hRAM == pycrypto_hash_to_scalar(<<to_bytes_point(R), to_bytes_point(A), M>>)
        S    == (r + fe * hRAM) % c.E
    IN  [R |-> R, S |-> S]

\* PublicKey.verify of zokrates_pycrypto
pycrypto_verify(c, A, sig, M, B) ==
    LET Bp   == IF B # NoPoint THEN B ELSE generator(c)
        lhs  == mult(c, Bp, sig.S)
        hRAM == pycrypto_hash_to_scalar(<<to_bytes_point(sig.R), to_bytes_point(A), M>>)
        rhs  == add(c, sig.R, mult(c, A, hRAM))
    IN  lhs = rhs

\* largest private key of the side-by-side runs
MaxBaseKey == 4

NoSig == [R |-> NoPoint, S |-> 0]

BaseInit ==
    /\ EnvInit
    /\ \E M \in Msgs : \E sk \in 0..MaxBaseKey :
       \E B \in {NoPoint} \cup CurvePoints(BabyJubJub) :
          ed = [pc |-> "keyed", c |-> BabyJubJub, M |-> M,
                fe |-> PrivateKey(BabyJubJub, sk), B |-> B,
                sig |-> NoSig, pycrypto_sig |-> NoSig,
                pk |-> Raise("not run"), pycrypto_pk |-> NoPoint,
                A |-> NoPoint, R |-> NoPoint, S |-> 0, Mv |-> << >>,
                raised |-> "none", verdict |-> FALSE,
                pycrypto_verdict |-> FALSE]
    /\ cv = CvIdle
    /\ hasher = [name |-> << >>]
    /\ ret = [pc |-> "idle"]
    /\ log = {}
    /\ shared = [pc |-> "idle"]
    /\ th = << >>

BaseUnchanged ==
    UNCHANGED <<sqrtRoot, hashSeed, cv, hasher, ret, log, shared, th>>

\* sk.sign(M, B) in both libraries
SignBoth ==
    /\ ed.pc = "keyed"
    /\ ed' = [ed EXCEPT !.pc = "signed",
                        !.sig = sign(ed.c, ed.fe, ed.M, ed.B),
                        !.pycrypto_sig = pycrypto_sign(ed.c, ed.fe, ed.M, ed.B)]
    /\ BaseUnchanged

\* PublicKey.from_private(sk, B) in both libraries
FromPrivateBoth ==
    /\ ed.pc = "signed"
    /\ ed' = [ed EXCEPT !.pc = "public",
                        !.pk = from_private(ed.c, ed.fe, ed.B),
                        !.pycrypto_pk = pycrypto_from_private(ed.c, ed.fe, ed.B)]
    /\ BaseUnchanged

\* pk.verify(sig, M, B) with the key and signature each library made;
\* znakes has no key when from_private raised
VerifyOwn ==
    /\ ed.pc = "public"
    /\ ed' = [ed EXCEPT !.pc = "verified",
                        !.raised = ed.pk.err,
                        !.verdict =
                            IF ed.pk.err # "none" THEN FALSE
                            ELSE verify(ed.c, ed.pk.val, ed.sig, ed.M, ed.B),
                        !.pycrypto_verdict =
                            pycrypto_verify(ed.c, ed.pycrypto_pk,
                                            ed.pycrypto_sig, ed.M, ed.B)]
    /\ BaseUnchanged

\* both verify the same key, signature and message: the key sk * B or
\* the generator, the signature or one with S + 1, the message signed or
\* another
VerifyBoth ==
    /\ ed.pc = "public"
    /\ \E A \in {ed.pycrypto_pk, generator(ed.c)} :
       \E R \in {ed.sig.R} :
       \E S \in {ed.sig.S, (ed.sig.S + 1) % ed.c.E} :
       \E Mv \in {ed.M, <<1>>} :
          ed' = [ed EXCEPT !.pc = "compared", !.A = A, !.R = R, !.S = S,
                           !.Mv = Mv,
                           !.verdict =
                               verify(ed.c, A, [R |-> R, S |-> S], Mv, ed.B),
                           !.pycrypto_verdict =
                               pycrypto_verify(ed.c, A, [R |-> R, S |-> S], Mv, ed.B)]
    /\ BaseUnchanged

BaseNext ==
    \/ SignBoth
    \/ FromPrivateBoth
    \/ VerifyOwn
    \/ VerifyBoth

SpecBase == BaseInit /\ [][BaseNext]_vars

\* C25: with a base point B given to all three operations,
\* PublicKey.from_private(sk, B).verify(sk.sign(M, B), M, B) is True for
\* every sk and M, as with the default generator
C25_BasePointHonoured ==
    ed.pc = "verified" =>
        /\ ed.raised = "none"
        /\ ed.verdict = TRUE
        /\ ed.pycrypto_verdict = TRUE

\* C26: reducing the digest modulo E and leaving it unreduced give the
\* same signature (R, S) for every key and message, and the same verify
\* result for every key, signature and message
C26_ReductionInterchangeable ==
    /\ ed.pc \in {"signed", "public", "verified", "compared"} =>
          ed.sig = ed.pycrypto_sig
    /\ ed.pc = "compared" => ed.verdict = ed.pycrypto_verdict

\* both libraries accepted a signature whose unreduced nonce is above E,
\* and rejected another
C26_Witness ==
    /\ ed.pc = "compared"
    /\ pycrypto_hash_to_scalar(<<to_bytes_FQ(ed.fe), ed.M>>) > ed.c.E
    /\ ed.sig.R # infinity(ed.c)
    /\ ed.verdict = TRUE /\ ed.pycrypto_verdict = TRUE
    /\ ed.A = ed.pycrypto_pk /\ ed.fe > 1

---------------------------------------------------------------------------
(* The width a call may fix *)

\* C28: after any successful hash or witness call the fixed segment count
\* of the hasher is at least 1; an input of zero windows (hash_scalars with
\* no scalars, or with the scalar 0) never fixes the width
C28_WidthAtLeastOne ==
    (IsCall /\ ret.err = "none") =>
        /\ hasher.is_sized
        /\ hasher.segments >= 1

\* hash_bits and hash_bytes do refuse an input of zero windows, and leave
\* the hasher unsized
C28_BitsRefuseEmpty ==
    (ret.op \in {"hash_bits", "hash_bytes"} /\ ret.nwin = 0) =>
        ret.err = "AssertionError"

---------------------------------------------------------------------------
(* Base point derivation: two calls of pedersen_hash_basepoint *)

Name27 == [k \in 1..(MAX_NAME_LEN - 1) |-> 120]

\* names of 0, 1, 2, 27, 28 and 29 bytes, some of them ending in a space
BasepointNames ==
    { << >>, <<32>>, <<97>>, <<97, 32>>, <<32, 97>>, <<97, 98>>,
      Name27, Name27 \o <<32>>, Name28, Name29 }

\* sequence numbers around every hex digit's carry and both range ends
BasepointIndices == {0 - 1, 0, 1, 10, 16, 255, 4096, MAX_SEQUENCE, MAX_SEQUENCE + 1}

BasepointInit ==
    /\ sqrtRoot = "low"
    /\ hashSeed \in 0..MaxSeed
    /\ ret = [pc |-> "none"]
    /\ cv = CvIdle
    /\ ed = EdIdle
    /\ hasher = [name |-> << >>]
    /\ log = {}
    /\ shared = [pc |-> "idle"]
    /\ th = << >>

\* one call pedersen_hash_basepoint(name, i): what it was given, the bytes
\* it handed to from_hash (none when it raised before) and its outcome
BasepointCall(name, i, r) ==
    [name |-> name, i |-> i, err |-> r.err, point |-> r.val,
     data |-> IF r.err \in {"InvalidIndex", "InvalidName"} THEN << >>
              ELSE basepoint_data(name, i)]

FirstBasepoint ==
    /\ ret.pc = "none"
    /\ \E name \in BasepointNames : \E i \in BasepointIndices :
          ret' = [pc |-> "one",
                  first |-> BasepointCall(name, i,
                                pedersen_hash_basepoint(name, i))]
    /\ UNCHANGED <<sqrtRoot, hashSeed, cv, ed, hasher, log, shared, th>>

SecondBasepoint ==
    /\ ret.pc = "one"
    /\ \E name \in BasepointNames : \E i \in BasepointIndices :
          ret' = [pc |-> "two", first |-> ret.first,
                  second |-> BasepointCall(name, i,
                                 pedersen_hash_basepoint(name, i))]
    /\ UNCHANGED <<sqrtRoot, hashSeed, cv, ed, hasher, log, shared, th>>

BasepointNext ==
    \/ FirstBasepoint
    \/ SecondBasepoint

SpecBasepoint == BasepointInit /\ [][BasepointNext]_vars

\* both calls were accepted, for pairs (name, index) that differ
TwoAccepted ==
    /\ ret.pc = "two"
    /\ ret.first.err = "none" /\ ret.second.err = "none"
    /\ <<ret.first.name, ret.first.i>> # <<ret.second.name, ret.second.i>>

\* C29: any two accepted pairs (name, index) that differ, names being byte
\* strings of at most 28 bytes and indices in 0..65535, give different
\* input bytes to the hash-to-curve function
C29_DomainsSeparated ==
    TwoAccepted => ret.first.data # ret.second.data

EndsInSpace(name) == Len(name) > 0 /\ name[Len(name)] = 32

\* the pairs do give different input bytes when neither name ends in a
\* space, and the same bytes give the same base point
C29_SeparatedWithoutTrailingSpace ==
    /\ (TwoAccepted /\ ~EndsInSpace(ret.first.name)
                    /\ ~EndsInSpace(ret.second.name)) =>
           ret.first.data # ret.second.data
    /\ (TwoAccepted /\ ret.first.data = ret.second.data) =>
           ret.first.point = ret.second.point
    /\ ret.pc = "two" =>
           /\ ret.first.err = "none" <=>
                 (Len(ret.first.name) <= MAX_NAME_LEN
                      /\ ret.first.i \in 0..MAX_SEQUENCE)
           /\ ret.first.err = "none" => Len(ret.first.data) = MAX_NAME_LEN + 4

---------------------------------------------------------------------------
(* Decoding a buffer that need not come from compress *)

\* first bytes with the sign bit clear and set, over y values below and
\* above the field modulus
HighBytes == {0, 1, 127, 128, 129, 255}

\* buffers of ENC_BYTES bytes, and two of another length
Buffers ==
    { <<h, l>> : h \in HighBytes, l \in 0..255 } \cup { <<1>>, <<0, 0, 1>> }

DecodeInit ==
    /\ sqrtRoot \in {"low", "high"}
    /\ hashSeed = 0
    /\ \E c \in Curves : \E buf \in Buffers :
          cv = [pc |-> "buffer", c |-> c, buf |-> buf,
                dec |-> Raise("unset"), enc |-> Raise("unset")]
    /\ ed = EdIdle
    /\ hasher = [name |-> << >>]
    /\ ret = [pc |-> "idle"]
    /\ log = {}
    /\ shared = [pc |-> "idle"]
    /\ th = << >>

\* decompress(buf)
DecompressBuffer ==
    /\ cv.pc = "buffer"
    /\ cv' = [cv EXCEPT !.pc = "decoded", !.dec = decompress(cv.c, cv.buf)]
    /\ UNCHANGED <<sqrtRoot, hashSeed, ed, hasher, ret, log, shared, th>>

\* decompress(buf).compress(), when decompress returned a point
CompressDecoded ==
    /\ cv.pc = "decoded"
    /\ cv.dec.err = "none"
    /\ cv' = [cv EXCEPT !.pc = "recompressed",
                        !.enc = compress(cv.c, cv.dec.val)]
    /\ UNCHANGED <<sqrtRoot, hashSeed, ed, hasher, ret, log, shared, th>>

DecodeNext == DecompressBuffer \/ CompressDecoded

SpecDecode == DecodeInit /\ [][DecodeNext]_vars

\* the y value and the sign bit a buffer holds
BufferY(buf) == int_from_bytes(buf) % Pow2(SIGN_BIT)

BufferSign(buf) == int_from_bytes(buf) \div Pow2(SIGN_BIT)

\* C30: for every buffer that decompress accepts,
\* compress(decompress(buf)) is buf; a buffer whose y value is not below
\* the field modulus, or whose sign bit is set while x is 0, is not accepted
C30_CanonicalEncoding ==
    /\ (cv.pc \in {"decoded", "recompressed"} /\ cv.dec.err = "none") =>
          /\ BufferY(cv.buf) < cv.c.Q
          /\ ~(BufferSign(cv.buf) = 1 /\ cv.dec.val.x = 0)
    /\ cv.pc = "recompressed" =>
          /\ cv.enc.err = "none"
          /\ cv.enc.val = cv.buf

\* the y value at or above the modulus is accepted, reduced
C30_ReducedYAccepted ==
    (cv.pc = "recompressed" /\ BufferY(cv.buf) >= cv.c.Q) =>
        /\ cv.dec.val.y = BufferY(cv.buf) % cv.c.Q
        /\ cv.enc.val # cv.buf

\* a buffer of the length compress gives, with y below the modulus and no
\* sign bit over x = 0, does come back from the round trip when accepted
C30_CanonicalBuffersRoundTrip ==
    (cv.pc = "recompressed" /\ BufferY(cv.buf) < cv.c.Q
        /\ ~(BufferSign(cv.buf) = 1 /\ cv.dec.val.x = 0)) =>
        /\ cv.enc.err = "none"
        /\ cv.enc.val = cv.buf

====
